---- MODULE Spec2Model ----
(***************************************************************************)
(* State-machine model of the ECG functions of                             *)
(* neurokit/bio/bio_ecg_preprocessing.py and neurokit/signal/signal.py:    *)
(*   ecg_systole        (phase classifier),   variables s_*                *)
(*   ecg_wave_detector  (P/Q/T localizer),    variables w_*                *)
(*   segmenter_pekkanen (energy, peak picking), variables k_*              *)
(*   discrete_to_continuous and its call in ecg_preprocess, variables d_*  *)
(*   ecg_preprocess, heart rate time points,  variables a_*                *)
(*   ecg_preprocess, filter and segmenter,    variables p_*                *)
(*   ecg_preprocess, peaks, cycles and report, variables r_*               *)
(* and of neurokit/signal/events.py:                                       *)
(*   find_events, localize_events, binarize_signal, variables e_*          *)
(* and of neurokit/bio/bio_rsp.py:                                         *)
(*   rsp_find_cycles,                          variables c_*               *)
(* Each function is a pure function of its arguments; it is modelled as a  *)
(* process whose initial state draws the arguments from bounded sets and   *)
(* whose actions are the statements and loop iterations of the function.   *)
(* Arrays are functions over 0..n-1 (Python indices); Python lists that    *)
(* are built by append are TLA+ sequences (position k holds index k-1).    *)
(***************************************************************************)
EXTENDS Integers, Sequences, FiniteSets, TLC

\* ------------------------------------------------------------------ bounds
\* longest signal handed to ecg_systole
MaxLen == 6
\* ecg_wave_detector: longest signal and most R-peaks, increasing R-peaks
MaxSig == 8
MaxPeaks == 3
\* ecg_wave_detector: longest signal and most R-peaks, R-peaks in any order
\* and with repetitions
MaxSigAny == 4
MaxPeaksAny == 3
\* sample values of the signals handed to ecg_wave_detector; argmax and argmin
\* only compare samples, and two levels give every comparison outcome
Samples == {0, 1}
\* segmenter_pekkanen: shortest and longest power and energy array, and a
\* window that is longer than the longest of them
MinEnergy == 6
MaxEnergy == 8
MaxWindow == 9
\* discrete_to_continuous: largest time index and most data points
MaxTime == 7
MaxPoints == 5
\* ecg_preprocess: longest recording and most rate points whose times are
\* computed
MaxRecording == 10
MaxAnchors == 2
\* ecg_preprocess: longest signal handed to the filter stage
MaxEcg == 2
\* ecg_preprocess: shortest and longest filtered signal whose peaks are
\* reported, and most candidate peaks
MinFiltered == 13
MaxFiltered == 14
MaxCandidates == 3
\* find_events: longest events channel
MaxChannel == 4
\* rsp_find_cycles: longest respiratory signal
MaxRsp == 6

VARIABLES
    s_pc,        \* position in ecg_systole
    s_n,         \* len(ecg)
    s_rpeaks,    \* argument rpeaks, as the set of its indices
    s_twaves,    \* argument t_waves, as the set of its indices
    s_waves,     \* local array `waves`
    s_index,     \* loop variable `index`
    s_current,   \* local `current`
    s_systole    \* local list `systole`, the return value

VARIABLES
    w_pc,        \* position in ecg_wave_detector
    w_ecg,       \* argument ecg, the array np.array(ecg)
    w_rpeaks,    \* argument rpeaks, an integer array
    w_index,     \* loop variable `index` of the running loop
    w_twaves,    \* local list t_waves
    w_pwaves,    \* local list p_waves
    w_qwaves     \* local list q_waves

VARIABLES
    k_pc,          \* position in segmenter_pekkanen
    k_window,      \* local window_size after line 462, in samples
    k_power,       \* local decg_power
    k_i,           \* loop variable i
    k_thresholds,  \* local list thresholds
    k_max_powers,  \* local list max_powers
    k_threshold,   \* local threshold
    k_max_power,   \* local max_power
    k_energy,    \* local lp_energy after the smoothing
    k_diff,      \* local lp_energy_diff
    k_rpeaks     \* local rpeaks: the boolean mask, then the index array

VARIABLES
    d_pc,            \* position in discrete_to_continuous and in its caller
    d_values,        \* argument values
    d_value_times,   \* argument value_times
    d_initial_index, \* local initial_index
    d_times,         \* local value_times after the subtraction
    d_x,             \* local x
    d_signal,        \* local signal: the array, then the indexed series
    d_error,         \* the exception in flight, "" when there is none
    d_column         \* the caller's column ecg_df["Heart_Rate"]

VARIABLES
    a_pc,              \* position in lines 142-146 of ecg_preprocess
    a_length,          \* local length
    a_heart_rate_idx,  \* local heart_rate_idx
    a_ts,              \* local ts
    a_times            \* local heart_rate_times

VARIABLES
    p_pc,                \* position in lines 93-119 of ecg_preprocess
    p_ecg,               \* local ecg = np.array(ecg)
    p_filter_type,       \* argument filter_type
    p_filter_band,       \* argument filter_band
    p_filter_frequency,  \* argument filter_frequency
    p_segmenter,         \* argument segmenter
    p_filtered,          \* local filtered
    p_called,            \* the segmenter function that was entered, "" for none
    p_rpeaks,            \* local rpeaks: "unset" or "candidates"
    p_error              \* the exception in flight, "" when there is none

VARIABLES
    e_pc,            \* position in find_events and in the functions it calls
    e_signal,        \* argument events_channel, a list
    e_treshold_arg,  \* argument treshold: <<>> for "auto", <<h>> for h/2
    e_cut,           \* argument cut
    e_time_index,    \* argument time_index: <<>> for None, <<list>> otherwise
    e_number,        \* argument number: <<>> for "all", <<n>> for the int n
    e_after,         \* argument after: <<>> for None, <<t>> for the time t
    e_before,        \* argument before: <<>> for None, <<t>> for the time t
    e_min_duration,  \* argument min_duration
    e_treshold,      \* local treshold of binarize_signal, in halves
    e_binary,        \* local events_channel of localize_events (binary)
    e_events,        \* local dict events
    e_after_part,    \* locals after_onsets, after_times, after_length
    e_before_part,   \* locals before_onsets, before_times, before_length
    e_error,         \* the exception in flight, "" when there is none
    e_returned       \* what was returned: "", "events" or "()"

VARIABLES
    c_pc,                  \* position in rsp_find_cycles
    c_signal,              \* argument signal
    c_gradient,            \* local gradient, doubled
    c_zeros,               \* local zeros
    c_phases_indices,      \* local list phases_indices
    c_inspiration_onsets,  \* local list inspiration_onsets
    c_expiration_onsets,   \* local list expiration_onsets
    c_phase,               \* local phase
    c_phase_counter,       \* local phase_counter
    c_i,                   \* loop variable i of the loop of line 230
    c_inspiration,         \* local inspiration while it holds strings
    c_binary,              \* local inspiration after pd.to_numeric
    c_error                \* the exception in flight, "" when there is none

VARIABLES
    r_pc,              \* position in lines 123-190 of ecg_preprocess
    r_length,          \* len(filtered), which is len(ecg)
    r_sampling_rate,   \* local sampling_rate
    r_corrected,       \* rpeaks as returned by correct_rpeaks (line 123)
    r_rpeaks,          \* local rpeaks
    r_cardiac_cycles,  \* local cardiac_cycles: the window of each template
    r_beats,           \* the beats handed to get_heart_rate
    r_rpeaks_signal,   \* the column ECG_R_Peaks
    r_R_Peaks,         \* processed_ecg["ECG"]["R_Peaks"]
    r_heartbeats,      \* number of columns of Cardiac_Cycles
    r_wave_rpeaks,     \* the rpeaks handed to ecg_wave_detector
    r_systole_rpeaks,  \* the rpeaks handed to ecg_systole
    r_error            \* the exception in flight, "" when there is none

VARIABLE
    console      \* the lines the functions have printed, in order

sVars == <<s_pc, s_n, s_rpeaks, s_twaves, s_waves, s_index, s_current, s_systole>>
wVars == <<w_pc, w_ecg, w_rpeaks, w_index, w_twaves, w_pwaves, w_qwaves>>
kPower == <<k_window, k_power, k_i, k_thresholds, k_max_powers, k_threshold,
            k_max_power>>
kVars == <<k_pc, kPower, k_energy, k_diff, k_rpeaks>>
dVars == <<d_pc, d_values, d_value_times, d_initial_index, d_times, d_x,
           d_signal, d_error, d_column>>
aVars == <<a_pc, a_length, a_heart_rate_idx, a_ts, a_times>>
pVars == <<p_pc, p_ecg, p_filter_type, p_filter_band, p_filter_frequency,
           p_segmenter, p_filtered, p_called, p_rpeaks, p_error>>
eVars == <<e_pc, e_signal, e_treshold_arg, e_cut, e_time_index, e_number,
           e_after, e_before, e_min_duration, e_treshold, e_binary, e_events,
           e_after_part, e_before_part, e_error, e_returned>>
cVars == <<c_pc, c_signal, c_gradient, c_zeros, c_phases_indices,
           c_inspiration_onsets, c_expiration_onsets, c_phase, c_phase_counter,
           c_i, c_inspiration, c_binary, c_error>>
rVars == <<r_pc, r_length, r_sampling_rate, r_corrected, r_rpeaks,
           r_cardiac_cycles, r_beats, r_rpeaks_signal, r_R_Peaks, r_heartbeats,
           r_wave_rpeaks, r_systole_rpeaks, r_error>>

vars == <<sVars, wVars, kVars, dVars, aVars, pVars, console, eVars, cVars, rVars>>

\* the variables each function leaves alone
notSystole == <<wVars, kVars, dVars, aVars, pVars, console, eVars, cVars, rVars>>
notWaves == <<sVars, kVars, dVars, aVars, pVars, console, eVars, cVars, rVars>>
notPekkanen == <<sVars, wVars, dVars, aVars, pVars, console, eVars, cVars, rVars>>
notContinuous == <<sVars, wVars, kVars, aVars, pVars, console, eVars, cVars, rVars>>
notTimes == <<sVars, wVars, kVars, dVars, pVars, console, eVars, cVars, rVars>>
notPreprocess == <<sVars, wVars, kVars, dVars, aVars, console, eVars, cVars, rVars>>
notEvents == <<sVars, wVars, kVars, dVars, aVars, pVars, cVars, rVars>>
notCycles == <<sVars, wVars, kVars, dVars, aVars, pVars, console, eVars, rVars>>
notReport == <<sVars, wVars, kVars, dVars, aVars, pVars, eVars, cVars>>

\* a function that is not running
IdleSystole ==
    /\ s_pc = "idle" /\ s_n = 0 /\ s_rpeaks = {} /\ s_twaves = {}
    /\ s_waves = <<>> /\ s_index = 0 /\ s_current = 0 /\ s_systole = <<>>
IdleWaves ==
    /\ w_pc = "idle" /\ w_ecg = <<>> /\ w_rpeaks = <<>> /\ w_index = 0
    /\ w_twaves = <<>> /\ w_pwaves = <<>> /\ w_qwaves = <<>>
IdlePekkanen ==
    /\ k_pc = "idle" /\ k_energy = <<>> /\ k_diff = <<>> /\ k_rpeaks = <<>>
    /\ k_window = 0 /\ k_power = <<>> /\ k_i = 0 /\ k_thresholds = <<>>
    /\ k_max_powers = <<>> /\ k_threshold = <<>> /\ k_max_power = <<>>
IdleContinuous ==
    /\ d_pc = "idle" /\ d_values = <<>> /\ d_value_times = <<>>
    /\ d_initial_index = 0 /\ d_times = <<>> /\ d_x = <<>> /\ d_signal = <<>>
    /\ d_error = "" /\ d_column = "unset"
IdleTimes ==
    /\ a_pc = "idle" /\ a_length = 0 /\ a_heart_rate_idx = <<>>
    /\ a_ts = <<>> /\ a_times = <<>>
IdlePreprocess ==
    /\ p_pc = "idle" /\ p_ecg = <<>> /\ p_filter_type = "" /\ p_filter_band = ""
    /\ p_filter_frequency = <<>> /\ p_segmenter = "" /\ p_filtered = <<>>
    /\ p_called = "" /\ p_rpeaks = "unset" /\ p_error = ""
\* the dict events before any key is set, and three empty lists
NoDict == [onsets |-> <<>>, durations |-> <<>>, onsets_time |-> <<>>,
           timed |-> FALSE]
NoPart == [onsets |-> <<>>, times |-> <<>>, length |-> <<>>]
IdleEvents ==
    /\ e_pc = "idle" /\ e_signal = <<>> /\ e_treshold_arg = <<>>
    /\ e_cut = "" /\ e_time_index = <<>> /\ e_number = <<>> /\ e_after = <<>>
    /\ e_before = <<>> /\ e_min_duration = 0 /\ e_treshold = 0
    /\ e_binary = <<>> /\ e_events = NoDict /\ e_after_part = NoPart
    /\ e_before_part = NoPart /\ e_error = "" /\ e_returned = ""
IdleCycles ==
    /\ c_pc = "idle" /\ c_signal = <<>> /\ c_gradient = <<>> /\ c_zeros = <<>>
    /\ c_phases_indices = <<>> /\ c_inspiration_onsets = <<>>
    /\ c_expiration_onsets = <<>> /\ c_phase = "" /\ c_phase_counter = 0
    /\ c_i = 0 /\ c_inspiration = <<>> /\ c_binary = <<>> /\ c_error = ""
IdleReport ==
    /\ r_pc = "idle" /\ r_length = 0 /\ r_sampling_rate = 0
    /\ r_corrected = <<>> /\ r_rpeaks = <<>> /\ r_cardiac_cycles = <<>>
    /\ r_beats = <<>> /\ r_rpeaks_signal = <<>> /\ r_R_Peaks = <<>>
    /\ r_heartbeats = 0 /\ r_wave_rpeaks = <<>> /\ r_systole_rpeaks = <<>>
    /\ r_error = ""

\* ------------------------------------------------------- Python semantics
\* a[i] on an array of length n: a negative i counts from the end
PyIndex(a, n, i) == IF i < 0 THEN a[n + i] ELSE a[i]

\* a[idx] = v for an index list idx (fancy assignment)
PyAssign(a, idx, v) == [i \in DOMAIN a |-> IF i \in idx THEN v ELSE a[i]]

\* ------------------------------------------------------------ ecg_systole
\* waves = np.array([u""]*len(ecg))
EmptyWaves(n) == [i \in 0..(n - 1) |-> ""]

\* number of iterations of `for index, value in enumerate(waves[1:])`
LoopLen(n) == IF n >= 1 THEN n - 1 ELSE 0

\* the sample the loop body looks at in iteration `index`
Looked(waves, n, index) == PyIndex(waves, n, index - 1)

\* the two `if` statements of the loop body
SystoleStep_NoReset(current, mark) == IF mark = "R" THEN 1 ELSE current
SystoleStep(current, mark) ==
    LET c1 == IF mark = "R" THEN 1 ELSE current
    IN  IF mark = "T" THEN 0 ELSE c1

InitSystole ==
    /\ s_pc = "mark_r"
    /\ s_n \in 0..MaxLen
    /\ s_rpeaks \in SUBSET (0..(s_n - 1))
    /\ s_twaves \in SUBSET (0..(s_n - 1))
    /\ s_waves = EmptyWaves(s_n)
    /\ s_index = 0
    /\ s_current = 0
    /\ s_systole = <<>>
    /\ IdleWaves /\ IdlePekkanen /\ IdleContinuous /\ IdleTimes /\ IdlePreprocess
    /\ console = <<>>
    /\ IdleEvents
    /\ IdleCycles
    /\ IdleReport

\* waves[rpeaks] = u"R"
\* For len(ecg) = 0 the array np.array([]) is a float64 array: the assignment
\* of a string either is refused (ValueError) or, the index being empty,
\* changes nothing; both outcomes are kept.
MarkR ==
    /\ s_pc = "mark_r"
    /\ s_waves' = PyAssign(s_waves, s_rpeaks, "R")
    /\ IF s_n = 0 THEN s_pc' \in {"mark_t", "raised"} ELSE s_pc' = "mark_t"
    /\ UNCHANGED <<s_n, s_rpeaks, s_twaves, s_index, s_current, s_systole, notSystole>>

\* waves[t_waves] = u"T"
MarkT ==
    /\ s_pc = "mark_t"
    /\ s_waves' = PyAssign(s_waves, s_twaves, "T")
    /\ s_pc' = "start"
    /\ UNCHANGED <<s_n, s_rpeaks, s_twaves, s_index, s_current, s_systole, notSystole>>

\* systole = [0]; current = 0
StartLoop ==
    /\ s_pc = "start"
    /\ s_systole' = <<0>>
    /\ s_current' = 0
    /\ s_index' = 0
    /\ s_pc' = "loop"
    /\ UNCHANGED <<s_n, s_rpeaks, s_twaves, s_waves, notSystole>>

\* one iteration of the for loop
LoopStep ==
    /\ s_pc = "loop"
    /\ s_index < LoopLen(s_n)
    /\ s_current' = SystoleStep(s_current, Looked(s_waves, s_n, s_index))
    /\ s_systole' = Append(s_systole, s_current')
    /\ s_index' = s_index + 1
    /\ UNCHANGED <<s_pc, s_n, s_rpeaks, s_twaves, s_waves, notSystole>>

\* return(systole)
ReturnSystole ==
    /\ s_pc = "loop"
    /\ s_index >= LoopLen(s_n)
    /\ s_pc' = "done"
    /\ UNCHANGED <<s_n, s_rpeaks, s_twaves, s_waves, s_index, s_current, s_systole, notSystole>>

NextSystole == MarkR \/ MarkT \/ StartLoop \/ LoopStep \/ ReturnSystole

SpecSystole == InitSystole /\ [][NextSystole]_vars

\* ------------------------------------------------- ecg_systole: the claims
\* sample p (Python index) of the returned list
Out(p) == s_systole[p + 1]

Returned == s_pc = "done"

\* the mark the arguments put on sample i (a T index wins over an R index,
\* as the second assignment overwrites the first)
MarkAt(i) == IF i \in s_twaves THEN "T" ELSE IF i \in s_rpeaks THEN "R" ELSE ""

Marked(k) == {i \in 0..(s_n - 1) : i <= k /\ MarkAt(i) # ""}

Max(S) == CHOOSE x \in S : \A y \in S : y <= x
Min(S) == CHOOSE x \in S : \A y \in S : x <= y

\* the most recent mark at an index <= k ("" when there is none)
LastMark(k) == IF Marked(k) = {} THEN "" ELSE MarkAt(Max(Marked(k)))

LastT == Max(s_twaves)
FirstR == Min(s_rpeaks)

\* C1: for n >= 1 the output starts at 0 and sample p is 1 iff the most recent
\* R/T mark at an index <= p-1 is an R (1 from R+1 on, 0 from T+1 on).
C1_OneSampleAfter ==
    (Returned /\ s_n >= 1) =>
        /\ Out(0) = 0
        /\ \A p \in 1..(s_n - 1) : (Out(p) = 1) <=> (LastMark(p - 1) = "R")

C3_ZeroUpToFirstR ==
    Returned =>
        \A k \in DOMAIN s_systole :
            (s_rpeaks = {} \/ k - 1 <= FirstR) => s_systole[k] = 0

\* C4: for every n (0 and 1 included) the call returns a list of exactly n
\* elements, each 0 or 1.
C4_BinarySameLength ==
    /\ s_pc # "raised"
    /\ Returned =>
        /\ Len(s_systole) = s_n
        /\ \A k \in DOMAIN s_systole : s_systole[k] \in {0, 1}

\* ------------------------------------------------------ ecg_wave_detector
\* len(ecg)
SigLen(ecg) == Cardinality(DOMAIN ecg)

\* int(x) of the float x = num/4: truncation toward zero.  Every float of the
\* function is an integer plus a multiple of 1/4, held here as its numerator.
PyInt4(num) == IF num >= 0 THEN num \div 4 ELSE -((-num) \div 4)

\* middle = (b - a) / 2 and quarter = middle/2 (true division), in quarters
Middle4(a, b) == 2 * (b - a)
Quarter4(a, b) == Middle4(a, b) \div 2

\* a slice bound i of a[lo:hi] on an array of length n
PyClamp(i, n) ==
    IF i < 0 THEN (IF i + n < 0 THEN 0 ELSE i + n) ELSE (IF i > n THEN n ELSE i)

\* epoch = ecg[lo:hi], as a sequence
PySlice(ecg, lo, hi) ==
    LET n == SigLen(ecg)
        start == PyClamp(lo, n)
        stop == PyClamp(hi, n)
    IN  IF stop > start THEN [k \in 1..(stop - start) |-> ecg[start + k - 1]]
        ELSE <<>>

\* np.argmax / np.argmin of a non-empty sequence: the first position (from 0)
\* of the greatest / least element
RECURSIVE ArgScan(_, _, _, _)
ArgScan(e, k, best, greater) ==
    IF k > Len(e) THEN best
    ELSE ArgScan(e, k + 1,
                 IF (greater /\ e[k] > e[best]) \/ (~greater /\ e[k] < e[best])
                 THEN k ELSE best,
                 greater)

RECURSIVE ArgScanLast(_, _, _, _)
ArgScanLast(e, k, best, greater) ==
    IF k > Len(e) THEN best
    ELSE ArgScanLast(e, k + 1,
                     IF (greater /\ e[k] >= e[best]) \/ (~greater /\ e[k] <= e[best])
                     THEN k ELSE best,
                     greater)

ArgMax_Last(e) == ArgScanLast(e, 2, 1, TRUE) - 1
ArgMax(e) == ArgScan(e, 2, 1, TRUE) - 1

ArgMin_Last(e) == ArgScanLast(e, 2, 1, FALSE) - 1
ArgMin(e) == ArgScan(e, 2, 1, FALSE) - 1

\* T wave of the pair (rpeak, next): epoch[int(rpeak+quarter):int(rpeak+middle)]
TStart_Minus(rpeak, next) == PyInt4(4 * rpeak - Quarter4(rpeak, next))
TStart(rpeak, next) == PyInt4(4 * rpeak + Quarter4(rpeak, next))

TStop_Inclusive(rpeak, next) == PyInt4(4 * rpeak + Middle4(rpeak, next)) + 1
TStop(rpeak, next) == PyInt4(4 * rpeak + Middle4(rpeak, next))

\* t_wave = int(rpeak+quarter) + np.argmax(epoch)
TWave(rpeak, next, epoch) == TStart(rpeak, next) + ArgMax(epoch)

\* P wave of the pair (prev, rpeak): epoch[int(rpeak-middle):int(rpeak-quarter)]
PStart(prev, rpeak) == PyInt4(4 * rpeak - Middle4(prev, rpeak))
PStop(prev, rpeak) == PyInt4(4 * rpeak - Quarter4(prev, rpeak))

\* p_wave = int(rpeak-quarter) + np.argmax(epoch)
PWave(prev, rpeak, epoch) == PyInt4(4 * rpeak - Quarter4(prev, rpeak)) + ArgMax(epoch)

\* rpeaks[rpeaks>p_wave]
Greater(rpeaks, p_wave) == SelectSeq(rpeaks, LAMBDA r : r > p_wave)

\* q_wave = p_wave + np.argmin(epoch)
QWave_NoOffset(p_wave, epoch) == ArgMin(epoch)
QWave(p_wave, epoch) == p_wave + ArgMin(epoch)

\* number of iterations of the loops over rpeaks[0:-1] and rpeaks[1:]
NumPairs(rpeaks) == IF Len(rpeaks) >= 1 THEN Len(rpeaks) - 1 ELSE 0

\* the increasing sequence of the elements of a set of integers
RECURSIVE SortedSeq(_)
SortedSeq(S) ==
    IF S = {} THEN <<>>
    ELSE LET m == CHOOSE x \in S : \A y \in S : y <= x
         IN  Append(SortedSeq(S \ {m}), m)

\* the R-peak arguments drawn for a signal of length n: every strictly
\* increasing in-bounds sequence of at most MaxPeaks peaks and, for short
\* signals, every in-bounds sequence of at most MaxPeaksAny peaks
RPeakInputs(n) ==
    {SortedSeq(S) : S \in {X \in SUBSET (0..(n - 1)) : Cardinality(X) <= MaxPeaks}}
    \cup (IF n <= MaxSigAny
          THEN UNION {[1..k -> 0..(n - 1)] : k \in 0..MaxPeaksAny}
          ELSE {})

InitWaves ==
    /\ w_pc = "t_loop"
    /\ \E n \in 0..MaxSig :
        /\ w_ecg \in [0..(n - 1) -> Samples]
        /\ w_rpeaks \in RPeakInputs(n)
    /\ w_index = 0
    /\ w_twaves = <<>>
    /\ w_pwaves = <<>>
    /\ w_qwaves = <<>>
    /\ IdleSystole /\ IdlePekkanen /\ IdleContinuous /\ IdleTimes /\ IdlePreprocess
    /\ console = <<>>
    /\ IdleEvents
    /\ IdleCycles
    /\ IdleReport

\* one iteration of `for index, rpeak in enumerate(rpeaks[0:-1])`
TStep ==
    /\ w_pc = "t_loop"
    /\ w_index < NumPairs(w_rpeaks)
    /\ LET rpeak == w_rpeaks[w_index + 1]
           next == w_rpeaks[w_index + 2]
           epoch == PySlice(w_ecg, TStart(rpeak, next), TStop(rpeak, next))
       IN  w_twaves' = IF epoch = <<>> THEN w_twaves    \* ValueError: pass
                       ELSE Append(w_twaves, TWave(rpeak, next, epoch))
    /\ w_index' = w_index + 1
    /\ UNCHANGED <<w_pc, w_ecg, w_rpeaks, w_pwaves, w_qwaves, notWaves>>

\* the T loop is exhausted: p_waves = []
TDone ==
    /\ w_pc = "t_loop"
    /\ w_index >= NumPairs(w_rpeaks)
    /\ w_pc' = "p_loop"
    /\ w_index' = 0
    /\ UNCHANGED <<w_ecg, w_rpeaks, w_twaves, w_pwaves, w_qwaves, notWaves>>

\* one iteration of `for index, rpeak in enumerate(rpeaks[1:])`; the body
\* works with index + 1
PStep ==
    /\ w_pc = "p_loop"
    /\ w_index < NumPairs(w_rpeaks)
    /\ LET rpeak == w_rpeaks[w_index + 2]
           prev == w_rpeaks[w_index + 1]
           epoch == PySlice(w_ecg, PStart(prev, rpeak), PStop(prev, rpeak))
       IN  w_pwaves' = IF epoch = <<>> THEN w_pwaves    \* ValueError: pass
                       ELSE Append(w_pwaves, PWave(prev, rpeak, epoch))
    /\ w_index' = w_index + 1
    /\ UNCHANGED <<w_pc, w_ecg, w_rpeaks, w_twaves, w_qwaves, notWaves>>

\* the P loop is exhausted: q_waves = []
PDone ==
    /\ w_pc = "p_loop"
    /\ w_index >= NumPairs(w_rpeaks)
    /\ w_pc' = "q_loop"
    /\ w_index' = 0
    /\ UNCHANGED <<w_ecg, w_rpeaks, w_twaves, w_pwaves, w_qwaves, notWaves>>

\* one iteration of `for index, p_wave in enumerate(p_waves)`.  The subscript
\* [0] of an empty selection raises IndexError, which nothing catches.
QStep ==
    /\ w_pc = "q_loop"
    /\ w_index < Len(w_pwaves)
    /\ LET p_wave == w_pwaves[w_index + 1]
           greater == Greater(w_rpeaks, p_wave)
       IN  IF greater = <<>>
           THEN /\ w_pc' = "raised"
                /\ UNCHANGED <<w_index, w_qwaves>>
           ELSE LET epoch == PySlice(w_ecg, p_wave, Head(greater))
                IN  /\ w_qwaves' = IF epoch = <<>> THEN w_qwaves    \* ValueError: pass
                                   ELSE Append(w_qwaves, QWave(p_wave, epoch))
                    /\ w_index' = w_index + 1
                    /\ UNCHANGED w_pc
    /\ UNCHANGED <<w_ecg, w_rpeaks, w_twaves, w_pwaves, notWaves>>

\* return(ecg_waves)
ReturnWaves ==
    /\ w_pc = "q_loop"
    /\ w_index >= Len(w_pwaves)
    /\ w_pc' = "done"
    /\ UNCHANGED <<w_ecg, w_rpeaks, w_index, w_twaves, w_pwaves, w_qwaves, notWaves>>

NextWaves == TStep \/ TDone \/ PStep \/ PDone \/ QStep \/ ReturnWaves

SpecWaves == InitWaves /\ [][NextWaves]_vars

\* ------------------------------------------- ecg_wave_detector: the claims
StrictlyIncreasing(rpeaks) ==
    \A i \in 1..(Len(rpeaks) - 1) : rpeaks[i] < rpeaks[i + 1]

Last(q) == q[Len(q)]

\* the search windows as the claims give them, for in-bounds (non-negative)
\* peaks a < b: int(a + D/4) = floor((3a+b)/4), int(a + D/2) = floor((a+b)/2),
\* int(b - D/2) = floor((a+b)/2), int(b - D/4) = floor((a+3b)/4)
TWinLo(a, b) == (3 * a + b) \div 4
TWinHi(a, b) == (a + b) \div 2
PWinLo(a, b) == (a + b) \div 2
PWinHi(a, b) == (a + 3 * b) \div 4

\* x is the first index of lo..hi-1 at which the signal is greatest / least
FirstMaxIn(x, lo, hi) ==
    /\ x \in lo..(hi - 1)
    /\ \A j \in lo..(hi - 1) : w_ecg[j] <= w_ecg[x]
    /\ \A j \in lo..(x - 1) : w_ecg[j] < w_ecg[x]
FirstMinIn(x, lo, hi) ==
    /\ x \in lo..(hi - 1)
    /\ \A j \in lo..(hi - 1) : w_ecg[j] >= w_ecg[x]
    /\ \A j \in lo..(x - 1) : w_ecg[j] > w_ecg[x]

InTStep == w_pc = "t_loop" /\ w_index < NumPairs(w_rpeaks)
InPStep == w_pc = "p_loop" /\ w_index < NumPairs(w_rpeaks)
InQStep == w_pc = "q_loop" /\ w_index < Len(w_pwaves)

\* C5: a pair (R_{i-1}, R_i) with a non-empty window [int(R_i - D/2),
\* int(R_i - D/4)) reports a P index inside the window, at which the signal
\* equals the maximum of the window.
C5_PStep ==
    InPStep =>
        LET a == w_rpeaks[w_index + 1]
            b == w_rpeaks[w_index + 2]
            lo == PWinLo(a, b)
            hi == PWinHi(a, b)
        IN  lo < hi =>
                /\ Len(w_pwaves') = Len(w_pwaves) + 1
                /\ Last(w_pwaves') \in lo..(hi - 1)
                /\ \A j \in lo..(hi - 1) : w_ecg[j] <= w_ecg[Last(w_pwaves')]
C5_PInWindow == [][C5_PStep]_vars

\* C6: a pair (R_i, R_{i+1}) with a non-empty window [int(R_i + D/4),
\* int(R_i + D/2)) reports a T index inside the window, the first index at
\* which the signal attains its maximum over the window.
C6_TStep ==
    InTStep =>
        LET a == w_rpeaks[w_index + 1]
            b == w_rpeaks[w_index + 2]
            lo == TWinLo(a, b)
            hi == TWinHi(a, b)
        IN  lo < hi =>
                /\ Len(w_twaves') = Len(w_twaves) + 1
                /\ FirstMaxIn(Last(w_twaves'), lo, hi)
C6_TFirstMax == [][C6_TStep]_vars

\* C6 witness: a T was reported from a window of at least two samples whose
\* maximum is not at the window's first sample.
C6_Witness ==
    /\ w_pc = "done"
    /\ \E i \in 1..NumPairs(w_rpeaks) :
        LET lo == TWinLo(w_rpeaks[i], w_rpeaks[i + 1])
            hi == TWinHi(w_rpeaks[i], w_rpeaks[i + 1])
        IN  /\ hi - lo >= 2
            /\ w_ecg[lo] < w_ecg[lo + 1]
            /\ \E k \in DOMAIN w_twaves : w_twaves[k] = lo + 1

\* C7: every detected P index has exactly one Q index, the first index of the
\* minimum over the span from P (inclusive) to the first R-peak greater than
\* P (exclusive); that R-peak exists, the Q search never fails.
C7_QStep ==
    InQStep =>
        LET p == w_pwaves[w_index + 1]
            later == {k \in DOMAIN w_rpeaks : w_rpeaks[k] > p}
        IN  /\ later # {}
            /\ w_pc' # "raised"
            /\ Len(w_qwaves') = Len(w_qwaves) + 1
            /\ FirstMinIn(Last(w_qwaves'), p, w_rpeaks[Min(later)])
C8_TStepStrict ==
    (InTStep /\ StrictlyIncreasing(w_rpeaks) /\ Len(w_twaves') = Len(w_twaves) + 1) =>
        /\ w_rpeaks[w_index + 1] < Last(w_twaves')
        /\ Last(w_twaves') < w_rpeaks[w_index + 2]
C8_TStrictlyBetween == [][C8_TStepStrict]_vars

\* C8 (amended): R_i <= T < R_{i+1}; T > R_i when the inter-beat distance is
\* at least 4, and T = R_i when it is 2 or 3 (the window is [R_i, R_i + 1)).
C8_TStepWeak ==
    (InTStep /\ StrictlyIncreasing(w_rpeaks) /\ Len(w_twaves') = Len(w_twaves) + 1) =>
        LET a == w_rpeaks[w_index + 1]
            b == w_rpeaks[w_index + 2]
            t == Last(w_twaves')
        IN  /\ a <= t
            /\ t < b
            /\ (b - a >= 4) => a < t
            /\ (b - a \in {2, 3}) => t = a
C8_TBetween == [][C8_TStepWeak]_vars

\* C8 witness: strictly increasing R-peaks and a reported T that is an R-peak.
C8_Witness ==
    /\ w_pc = "done"
    /\ StrictlyIncreasing(w_rpeaks)
    /\ \E k \in DOMAIN w_twaves : \E i \in DOMAIN w_rpeaks : w_twaves[k] = w_rpeaks[i]
    /\ \E k \in DOMAIN w_twaves : \A i \in DOMAIN w_rpeaks : w_twaves[k] # w_rpeaks[i]

\* the R-peak that closes the cycle of a P index
ClosingR(p) == Min({w_rpeaks[k] : k \in {j \in DOMAIN w_rpeaks : w_rpeaks[j] > p}})

\* C9 (as stated): with strictly increasing R-peaks each detected P, its Q and
\* the closing R satisfy P < Q < R.
C9_PQRStrict ==
    (w_pc = "done" /\ StrictlyIncreasing(w_rpeaks)) =>
        \A k \in DOMAIN w_qwaves :
            w_pwaves[k] < w_qwaves[k] /\ w_qwaves[k] < ClosingR(w_pwaves[k])

\* C9 (amended): P <= Q < R, and Q = P exactly when the signal is least at P
\* over the span from P to R.
C9_PQR ==
    (w_pc = "done" /\ StrictlyIncreasing(w_rpeaks)) =>
        /\ Len(w_qwaves) = Len(w_pwaves)
        /\ \A k \in DOMAIN w_qwaves :
            LET p == w_pwaves[k]
                q == w_qwaves[k]
                r == ClosingR(p)
            IN  /\ p <= q
                /\ q < r
                /\ (q = p) <=> (\A j \in p..(r - 1) : w_ecg[p] <= w_ecg[j])

\* C9 witness: a Q index equal to its P index although the span from P to R
\* holds more than one sample.
C9_Witness ==
    /\ w_pc = "done"
    /\ StrictlyIncreasing(w_rpeaks)
    /\ \E k \in DOMAIN w_qwaves :
        w_qwaves[k] = w_pwaves[k] /\ ClosingR(w_pwaves[k]) >= w_pwaves[k] + 2

\* pairs among the first k whose T (P) window is not empty
TPairs(k) ==
    {i \in 1..k : TWinLo(w_rpeaks[i], w_rpeaks[i + 1]) < TWinHi(w_rpeaks[i], w_rpeaks[i + 1])}
PPairs(k) ==
    {i \in 1..k : PWinLo(w_rpeaks[i], w_rpeaks[i + 1]) < PWinHi(w_rpeaks[i], w_rpeaks[i + 1])}

\* pairs the T loop and the P loop have gone through
TSeen == IF w_pc = "t_loop" THEN w_index ELSE NumPairs(w_rpeaks)
PSeen ==
    IF w_pc = "t_loop" THEN 0
    ELSE IF w_pc = "p_loop" THEN w_index ELSE NumPairs(w_rpeaks)

\* the call never raises and never stops before its return; a pair with an
\* empty T (P) window adds no T (P) entry, every other pair adds exactly one
SkipsEmptyWindows ==
    /\ w_pc # "raised"
    /\ (w_pc \in {"t_loop", "p_loop", "q_loop"}) => ENABLED NextWaves
    /\ Len(w_twaves) = Cardinality(TPairs(TSeen))
    /\ Len(w_pwaves) = Cardinality(PPairs(PSeen))

Ascending(q) == \A i \in 1..(Len(q) - 1) : q[i] < q[i + 1]
Within(q, lo, hi) == \A i \in DOMAIN q : lo <= q[i] /\ q[i] <= hi

\* C11: with strictly increasing in-bounds R-peaks each of P_Waves, Q_Waves
\* and T_Waves is strictly increasing and holds only indices of the signal.
C11_WavesOrderedInBounds ==
    StrictlyIncreasing(w_rpeaks) =>
        /\ Ascending(w_twaves) /\ Within(w_twaves, 0, SigLen(w_ecg) - 1)
        /\ Ascending(w_pwaves) /\ Within(w_pwaves, 0, SigLen(w_ecg) - 1)
        /\ Ascending(w_qwaves) /\ Within(w_qwaves, 0, SigLen(w_ecg) - 1)

\* C11 witness: a returned call on three increasing R-peaks that reported two
\* waves of each kind.
C11_Witness ==
    /\ w_pc = "done"
    /\ StrictlyIncreasing(w_rpeaks)
    /\ Len(w_twaves) = 2 /\ Len(w_pwaves) = 2 /\ Len(w_qwaves) = 2

\* ------------------------------------------------------ segmenter_pekkanen
\* Lines 475-510.  decg_power (line 473) is the squared first difference of
\* the band-passed signal: a non-negative float array, one sample shorter
\* than the signal (np.diff, line 472); filtfilt accepts a signal only when
\* it is longer than its padding of 6 samples.  The power is drawn from four
\* levels, with at most two samples that are not 0.
Powers == {0, 1, 4, 9}

PowerInputs(n) ==
    {[j \in 0..(n - 1) |-> IF j \in DOMAIN g THEN g[j] ELSE 0] :
        g \in UNION {[X -> Powers \ {0}] :
                        X \in {Y \in SUBSET (0..(n - 1)) : Cardinality(Y) <= 2}}}

\* window_size = int(window_size*sampling_rate): a few windows per recording,
\* or a window longer than every recording
Windows == {2, 3, MaxWindow}

\* not-a-number in an array of energies or of their differences
NaN == 1000

\* the levels of the smoothed energy lp_energy; the peak picking only looks
\* at the signs of its differences
Energies == {0, 1, 2}

\* len(signal) for an energy array: np.diff of line 472 dropped one sample
EcgLen(energy) == SigLen(energy) + 1

\* int(len(decg_power)/window_size)
WindowCount_Partial(n, window) == (n + window - 1) \div window
WindowCount(n, window) == n \div window

RECURSIVE SumSeq(_, _)
SumSeq(d, k) == IF k = 0 THEN 0 ELSE d[k] + SumSeq(d, k - 1)

\* np.std(d) of a window d of w samples is sqrt(V)/w with the integer
\* V = w * sum(x^2) - (sum x)^2; the entry 0.5*np.std(d) of thresholds is held
\* as V
HalfStdV(d) ==
    LET w == Len(d)
        squares == [k \in 1..w |-> d[k] * d[k]]
    IN  w * SumSeq(squares, w) - SumSeq(d, w) * SumSeq(d, w)

\* np.max(d)
MaxOf(d) == Max({d[k] : k \in DOMAIN d})

\* a list in ascending order
RECURSIVE SortedList(_)
SortedList(q) ==
    IF q = <<>> THEN <<>>
    ELSE LET m == Min({q[i] : i \in DOMAIN q})
             k == CHOOSE i \in DOMAIN q : q[i] = m
             rest == [i \in 1..(Len(q) - 1) |-> IF i < k THEN q[i] ELSE q[i + 1]]
         IN  <<m>> \o SortedList(rest)

\* np.median(q): the mean of the two middle elements of the sorted list (the
\* middle element twice for an odd length), held as that pair; nan, held as
\* the empty pair, for an empty list
Median(q) ==
    IF q = <<>> THEN <<>>
    ELSE LET sorted == SortedList(q)
             m == Len(sorted)
         IN  <<sorted[(m + 1) \div 2], sorted[(m \div 2) + 1]>>

\* x < threshold for the median threshold (sqrt(a) + sqrt(b)) / (4 w) of the
\* entries a, b; a comparison with nan is false
BelowThreshold(x, threshold, w) ==
    IF threshold = <<>> THEN FALSE
    ELSE LET c == 4 * w * x
             r == c * c - threshold[1] - threshold[2]
         IN  r < 0 \/ r * r < 4 * threshold[1] * threshold[2]

\* x / max_power for the median (a + b) / 2, as the fraction <<2x, a + b>>:
\* <<0, 0>> is nan (0/0, or a nan divisor), <<2x, 0>> with x > 0 is inf
Divide(x, max_power) ==
    IF max_power = <<>> THEN <<0, 0>>
    ELSE <<2 * x, max_power[1] + max_power[2]>>

IsNan(v) == v = <<0, 0>>

\* v > 1.0; false for nan, true for inf
AboveOne(v) == v[1] > v[2]

\* lines 491-503: the Shannon energy of the normalised power, its moving
\* average and its Gaussian smoothing.  A nan sample stays nan through every
\* step and spreads to the samples whose averaging window holds it; an array
\* of nan only gives an array of nan only, an array without nan gives
\* energies without nan.  np.convolve in mode 'same' keeps the length of a
\* recording that is at least as long as the averaging window.
SmoothOutcomes(power) ==
    LET nans == {j \in DOMAIN power : IsNan(power[j])}
    IN  IF nans = {} THEN [DOMAIN power -> Energies]
        ELSE {[j \in DOMAIN power |-> IF j \in nans THEN NaN ELSE g[j]] :
                g \in [DOMAIN power \ nans -> Energies \cup {NaN}]}

\* np.diff(a); a difference with nan is nan
NpDiff(a) ==
    [i \in 0..(SigLen(a) - 2) |->
        IF a[i + 1] = NaN \/ a[i] = NaN THEN NaN ELSE a[i + 1] - a[i]]

\* (d[:-1] > 0) & (d[1:] < 0); a comparison with nan is false
RisesThenFalls_Weak(d) ==
    [i \in 0..(SigLen(d) - 2) |->
        d[i] # NaN /\ d[i + 1] # NaN /\ d[i] >= 0 /\ d[i + 1] < 0]
RisesThenFalls(d) ==
    [i \in 0..(SigLen(d) - 2) |->
        d[i] # NaN /\ d[i + 1] # NaN /\ d[i] > 0 /\ d[i + 1] < 0]

\* np.flatnonzero(mask)
FlatNonzero(mask) == SortedSeq({i \in DOMAIN mask : mask[i]})

\* rpeaks -= 1
ShiftBack(rpeaks) == [j \in DOMAIN rpeaks |-> rpeaks[j] - 1]

InitPekkanen ==
    /\ k_pc = "windows"
    /\ k_window \in Windows
    /\ \E n \in MinEnergy..MaxEnergy : k_power \in PowerInputs(n)
    /\ k_i = 0
    /\ k_thresholds = <<>>
    /\ k_max_powers = <<>>
    /\ k_threshold = <<>>
    /\ k_max_power = <<>>
    /\ k_energy = <<>>
    /\ k_diff = <<>>
    /\ k_rpeaks = <<>>
    /\ IdleSystole /\ IdleWaves /\ IdleContinuous /\ IdleTimes /\ IdlePreprocess
    /\ console = <<>>
    /\ IdleEvents
    /\ IdleCycles
    /\ IdleReport

\* one iteration of `for i in xrange(int(len(decg_power)/window_size))`
WindowStep ==
    /\ k_pc = "windows"
    /\ k_i < WindowCount(SigLen(k_power), k_window)
    /\ LET d == PySlice(k_power, k_i * k_window, (k_i + 1) * k_window)
       IN  /\ k_thresholds' = Append(k_thresholds, HalfStdV(d))
           /\ k_max_powers' = Append(k_max_powers, MaxOf(d))
    /\ k_i' = k_i + 1
    /\ UNCHANGED <<k_pc, k_window, k_power, k_threshold, k_max_power,
                   k_energy, k_diff, k_rpeaks, notPekkanen>>

\* the loop is exhausted; threshold = np.median(thresholds) (the assignment
\* of line 484 is overwritten); max_power = np.median(max_powers)
Medians ==
    /\ k_pc = "windows"
    /\ k_i >= WindowCount(SigLen(k_power), k_window)
    /\ k_threshold' = Median(k_thresholds)
    /\ k_max_power' = Median(k_max_powers)
    /\ k_pc' = "zero"
    /\ UNCHANGED <<k_window, k_power, k_i, k_thresholds, k_max_powers,
                   k_energy, k_diff, k_rpeaks, notPekkanen>>

\* decg_power[decg_power < threshold] = 0
ZeroBelow ==
    /\ k_pc = "zero"
    /\ k_power' = [j \in DOMAIN k_power |->
                     IF BelowThreshold(k_power[j], k_threshold, k_window)
                     THEN 0 ELSE k_power[j]]
    /\ k_pc' = "normalise"
    /\ UNCHANGED <<k_window, k_i, k_thresholds, k_max_powers, k_threshold,
                   k_max_power, k_energy, k_diff, k_rpeaks, notPekkanen>>

\* decg_power = decg_power/max_power
Normalise ==
    /\ k_pc = "normalise"
    /\ k_power' = [j \in DOMAIN k_power |-> Divide(k_power[j], k_max_power)]
    /\ k_pc' = "clip"
    /\ UNCHANGED <<k_window, k_i, k_thresholds, k_max_powers, k_threshold,
                   k_max_power, k_energy, k_diff, k_rpeaks, notPekkanen>>

\* decg_power[decg_power > 1.0] = 1.0
Clip ==
    /\ k_pc = "clip"
    /\ k_power' = [j \in DOMAIN k_power |->
                     IF AboveOne(k_power[j]) THEN <<1, 1>> ELSE k_power[j]]
    /\ k_pc' = "smooth"
    /\ UNCHANGED <<k_window, k_i, k_thresholds, k_max_powers, k_threshold,
                   k_max_power, k_energy, k_diff, k_rpeaks, notPekkanen>>

\* lines 491-503, to lp_energy = scipy.ndimage.gaussian_filter1d(...).  The
\* locals of the lines before are not read again and are let go.
Smooth ==
    /\ k_pc = "smooth"
    /\ k_energy' \in SmoothOutcomes(k_power)
    /\ k_power' = <<>>
    /\ k_i' = 0
    /\ k_thresholds' = <<>>
    /\ k_max_powers' = <<>>
    /\ k_threshold' = <<>>
    /\ k_max_power' = <<>>
    /\ k_pc' = "diff"
    /\ UNCHANGED <<k_window, k_diff, k_rpeaks, notPekkanen>>

\* lp_energy_diff = np.diff(lp_energy)
EnergyDiff ==
    /\ k_pc = "diff"
    /\ k_diff' = NpDiff(k_energy)
    /\ k_pc' = "compare"
    /\ UNCHANGED <<kPower, k_energy, k_rpeaks, notPekkanen>>

\* rpeaks = (lp_energy_diff[:-1] > 0) & (lp_energy_diff[1:] < 0)
Compare ==
    /\ k_pc = "compare"
    /\ k_rpeaks' = RisesThenFalls(k_diff)
    /\ k_pc' = "flatnonzero"
    /\ UNCHANGED <<kPower, k_energy, k_diff, notPekkanen>>

\* rpeaks = np.flatnonzero(rpeaks)
Flatten ==
    /\ k_pc = "flatnonzero"
    /\ k_rpeaks' = FlatNonzero(k_rpeaks)
    /\ k_pc' = "shift"
    /\ UNCHANGED <<kPower, k_energy, k_diff, notPekkanen>>

\* rpeaks -= 1
Shift ==
    /\ k_pc = "shift"
    /\ k_rpeaks' = ShiftBack(k_rpeaks)
    /\ k_pc' = "return"
    /\ UNCHANGED <<kPower, k_energy, k_diff, notPekkanen>>

\* return(rpeaks)
ReturnPekkanen ==
    /\ k_pc = "return"
    /\ k_pc' = "done"
    /\ UNCHANGED <<kPower, k_energy, k_diff, k_rpeaks, notPekkanen>>

NextPekkanen ==
    WindowStep \/ Medians \/ ZeroBelow \/ Normalise \/ Clip \/ Smooth
        \/ EnergyDiff \/ Compare \/ Flatten \/ Shift \/ ReturnPekkanen

SpecPekkanen == InitPekkanen /\ [][NextPekkanen]_vars

\* ------------------------------------------ segmenter_pekkanen: the claims
\* C12: the returned candidate indices are strictly ascending and each is a
\* position of the signal, 0 <= index <= len(signal) - 1; none is negative.
C12_CandidatesInSignal ==
    (k_pc = "done") =>
        /\ Ascending(k_rpeaks)
        /\ Within(k_rpeaks, 0, EcgLen(k_energy) - 1)

\* ------------------------------------------------- discrete_to_continuous
\* The call of line 164 of ecg_preprocess, `heart_rate =
\* discrete_to_continuous(heart_rate, heart_rate_times, sampling_rate)`, with
\* the try statement around it.  The arguments are two arrays of equal
\* length, the times being strictly increasing sample indices.
Rates == {0, 1}

\* the value of the fitted spline at a position that is not a data point; it
\* lies outside Rates, so that it is never taken for a data value
Between == -1

TimeInputs ==
    {SortedSeq(S) : S \in {X \in SUBSET (0..MaxTime) : Cardinality(X) <= MaxPoints}}

\* np.array(value_times) - initial_index
Subtract(value_times, initial_index) ==
    [j \in DOMAIN value_times |-> value_times[j] - initial_index]

\* scipy.interpolate.splrep(x, y, k=3, s=0) needs more than k data points
\* ("m > k must hold") and raises TypeError otherwise
SplineOrder == 3
EnoughForSpline(m) == m > SplineOrder

\* np.arange(0, stop, 1): the integers 0, ..., stop - 1
Arange(start, stop) == [i \in 0..(stop - start - 1) |-> start + i]

\* scipy.interpolate.splev at position x of the spline fitted with s=0: it
\* passes through all the given points
SplineAt(times, values, x) ==
    IF \E j \in DOMAIN times : times[j] = x
    THEN values[CHOOSE j \in DOMAIN times : times[j] = x]
    ELSE Between

\* signal.index = np.arange(initial_index, initial_index+len(signal), 1)
Reindex(signal, initial_index) ==
    [t \in initial_index..(initial_index + SigLen(signal) - 1) |-> signal[t - initial_index]]

InitContinuous ==
    /\ d_pc = "call"
    /\ d_value_times \in TimeInputs
    /\ d_values \in [DOMAIN d_value_times -> Rates]
    /\ d_initial_index = 0
    /\ d_times = <<>>
    /\ d_x = <<>>
    /\ d_signal = <<>>
    /\ d_error = ""
    /\ d_column = "unset"
    /\ IdleSystole /\ IdleWaves /\ IdlePekkanen /\ IdleTimes /\ IdlePreprocess
    /\ console = <<>>
    /\ IdleEvents
    /\ IdleCycles
    /\ IdleReport

\* initial_index = value_times[0]; value_times = np.array(value_times) -
\* initial_index.  The subscript [0] of an empty array raises IndexError.
Offset ==
    /\ d_pc = "call"
    /\ IF Len(d_value_times) = 0
       THEN /\ d_error' = "IndexError"
            /\ d_pc' = "except"
            /\ UNCHANGED <<d_initial_index, d_times>>
       ELSE /\ d_initial_index' = d_value_times[1]
            /\ d_times' = Subtract(d_value_times, d_value_times[1])
            /\ d_pc' = "splrep"
            /\ UNCHANGED d_error
    /\ UNCHANGED <<d_values, d_value_times, d_x, d_signal, d_column, notContinuous>>

\* spline = scipy.interpolate.splrep(x=value_times, y=values, k=3, s=0)
Splrep ==
    /\ d_pc = "splrep"
    /\ IF EnoughForSpline(Len(d_times))
       THEN d_pc' = "arange" /\ UNCHANGED d_error
       ELSE d_pc' = "except" /\ d_error' = "TypeError"
    /\ UNCHANGED <<d_values, d_value_times, d_initial_index, d_times, d_x,
                   d_signal, d_column, notContinuous>>

\* x = np.arange(0, value_times[-1], 1)
MakeX ==
    /\ d_pc = "arange"
    /\ d_x' = Arange(0, d_times[Len(d_times)])
    /\ d_pc' = "splev"
    /\ UNCHANGED <<d_values, d_value_times, d_initial_index, d_times,
                   d_signal, d_error, d_column, notContinuous>>

\* signal = scipy.interpolate.splev(x=x, tck=spline, der=0)
Splev ==
    /\ d_pc = "splev"
    /\ d_signal' = [i \in DOMAIN d_x |-> SplineAt(d_times, d_values, d_x[i])]
    /\ d_pc' = "series"
    /\ UNCHANGED <<d_values, d_value_times, d_initial_index, d_times, d_x,
                   d_error, d_column, notContinuous>>

\* signal = pd.Series(signal); signal.index = ...; return(signal)
ReturnSeries ==
    /\ d_pc = "series"
    /\ d_signal' = Reindex(d_signal, d_initial_index)
    /\ d_pc' = "returned"
    /\ UNCHANGED <<d_values, d_value_times, d_initial_index, d_times, d_x,
                   d_error, d_column, notContinuous>>

\* ecg_df[u"Heart_Rate"] = heart_rate
AssignRate ==
    /\ d_pc = "returned"
    /\ d_column' = "series"
    /\ d_pc' = "done"
    /\ UNCHANGED <<d_values, d_value_times, d_initial_index, d_times, d_x,
                   d_signal, d_error, notContinuous>>

\* the warning line 167 prints
TooShort == "Sequence too short to compute heart rate."

\* except TypeError: print the warning; ecg_df[u"Heart_Rate"] = np.nan
ExceptTypeError ==
    /\ d_pc = "except"
    /\ d_error = "TypeError"
    /\ d_error' = ""
    /\ console' = Append(console, TooShort)
    /\ d_column' = "nan"
    /\ d_pc' = "done"
    /\ UNCHANGED <<d_values, d_value_times, d_initial_index, d_times, d_x,
                   d_signal, sVars, wVars, kVars, aVars, pVars, eVars, cVars,
                   rVars>>

\* an exception of another kind leaves ecg_preprocess
Propagate ==
    /\ d_pc = "except"
    /\ d_error # "TypeError"
    /\ d_pc' = "propagated"
    /\ UNCHANGED <<d_values, d_value_times, d_initial_index, d_times, d_x,
                   d_signal, d_error, d_column, notContinuous>>

NextContinuous ==
    Offset \/ Splrep \/ MakeX \/ Splev \/ ReturnSeries \/ AssignRate
        \/ ExceptTypeError \/ Propagate

SpecContinuous == InitContinuous /\ [][NextContinuous]_vars

\* ------------------------------------- discrete_to_continuous: the claims
NumPoints == Len(d_value_times)
FirstTime == d_value_times[1]
LastTime == d_value_times[NumPoints]

\* the call of discrete_to_continuous has ended: by return, or by raising
HasReturned == d_pc \in {"returned", "done"} /\ d_column # "nan"
HasRaised == d_pc \in {"except", "propagated"}

\* C13: with fewer than 4 points, 0 included, no error leaves ecg_preprocess,
\* and once the try statement is over the Heart_Rate column is NaN.
C13_NanNoError ==
    NumPoints < 4 =>
        /\ d_pc # "propagated"
        /\ (d_pc = "done") => d_column = "nan"

\* C14: for 0, 1, 2 and 3 points the call raises, always the one kind of
\* error its callers catch; for 4 or more points it raises nothing.
C14_OneErrorKind ==
    /\ (NumPoints < 4) => ~HasReturned /\ d_pc # "arange"
    /\ (NumPoints < 4 /\ HasRaised) => d_error = "TypeError"
    /\ (NumPoints >= 4) => ~HasRaised /\ d_error = ""

\* C15: for 4 or more points the index of the returned series is exactly
\* first time .. last time, both included: last - first + 1 samples.
C15_FirstToLast ==
    (HasReturned /\ NumPoints >= 4) =>
        /\ DOMAIN d_signal = FirstTime..LastTime
        /\ SigLen(d_signal) = LastTime - FirstTime + 1

\* C16: every original time index (first, interior, last) is in the index of
\* the returned series, and the series holds the original value there.
C16_RoundTrip ==
    HasReturned =>
        \A j \in DOMAIN d_value_times :
            /\ d_value_times[j] \in DOMAIN d_signal
            /\ d_signal[d_value_times[j]] = d_values[j]

\* ------------------------------- ecg_preprocess: the heart rate time points
\* Lines 142-146 turn the beat indices heart_rate_idx of the rate points into
\* times in seconds and back into sample indices.  With T = (length - 1) /
\* sampling_rate the product ts[i] * sampling_rate is the fraction
\* i * (length - 1) / length, whatever the sampling rate; a time is held as
\* the numerator of that fraction.
IdxInputs(length) ==
    {SortedSeq(S) : S \in {X \in SUBSET (0..(length - 1)) : Cardinality(X) <= MaxAnchors}}

\* np.linspace(0, T, length, endpoint=False): ts[i] = i * (T / length)
Linspace(length) == [i \in 0..(length - 1) |-> i * (length - 1)]

\* np.round of the float num/den, num >= 0: to the nearest integer, a tie to
\* the even neighbour.  At a tie the float product ts[i] * sampling_rate may
\* lie one ulp off the half, on either side, so both neighbours are outcomes.
NpRound(num, den) ==
    LET q == num \div den
        r == num % den
    IN  IF 2 * r < den THEN {q}
        ELSE IF 2 * r > den THEN {q + 1}
        ELSE {q, q + 1}

InitTimes ==
    /\ a_pc = "linspace"
    /\ a_length \in 1..MaxRecording
    /\ a_heart_rate_idx \in IdxInputs(a_length)
    /\ a_ts = <<>>
    /\ a_times = <<>>
    /\ IdleSystole /\ IdleWaves /\ IdlePekkanen /\ IdleContinuous /\ IdlePreprocess
    /\ console = <<>>
    /\ IdleEvents
    /\ IdleCycles
    /\ IdleReport

\* length = len(ecg); T = (length - 1) / sampling_rate;
\* ts = np.linspace(0, T, length, endpoint=False)
MakeTs ==
    /\ a_pc = "linspace"
    /\ a_ts' = Linspace(a_length)
    /\ a_pc' = "take"
    /\ UNCHANGED <<a_length, a_heart_rate_idx, a_times, notTimes>>

\* heart_rate_times = ts[heart_rate_idx]
TakeTimes ==
    /\ a_pc = "take"
    /\ a_times' = [j \in DOMAIN a_heart_rate_idx |-> a_ts[a_heart_rate_idx[j]]]
    /\ a_pc' = "round"
    /\ UNCHANGED <<a_length, a_heart_rate_idx, a_ts, notTimes>>

\* heart_rate_times = np.round(heart_rate_times*sampling_rate).astype(int)
RoundTimes ==
    /\ a_pc = "round"
    /\ a_times' \in {f \in [DOMAIN a_times -> 0..a_length] :
                        \A j \in DOMAIN a_times : f[j] \in NpRound(a_times[j], a_length)}
    /\ a_pc' = "done"
    /\ UNCHANGED <<a_length, a_heart_rate_idx, a_ts, notTimes>>

NextTimes == MakeTs \/ TakeTimes \/ RoundTimes

SpecTimes == InitTimes /\ [][NextTimes]_vars

\* --------------------------- ecg_preprocess, heart rate times: the claims
\* C17: for every recording length and every beat index i of a rate point,
\* the time index computed for it equals i, in both halves of the recording.
C17_TimeIndexIsBeatIndex ==
    (a_pc = "done") =>
        \A j \in DOMAIN a_heart_rate_idx : a_times[j] = a_heart_rate_idx[j]

\* --------------------------------- ecg_preprocess: filter and segmenter
\* Lines 89-119.  biosppy.tools.filter_signal and the biosppy segmenters are
\* library functions: the filter returns an array as long as its input, the
\* segmenters return a candidate index array that is not looked into here.
Families == {"FIR", "butter", "cheby1", "cheby2", "ellip", "bessel"}

\* the values drawn for filter_type: the families, None, and other strings
FilterTypeInputs == Families \cup {"None", "none", "other"}

Bands == {"lowpass", "highpass", "bandpass", "bandstop"}
BandInputs == Bands \cup {"other"}

\* filter_frequency: one cutoff, or a pair of cutoffs in either order
FrequencyInputs == {<<3>>, <<3, 45>>, <<45, 3>>}

Documented == {"hamilton", "gamboa", "engzee", "christov", "ssf", "pekkanen"}
SegmenterInputs == Documented \cup {"None", "other"}

\* a band with the number of cutoffs it takes
ValidCombination(band, frequency) ==
    \/ band \in {"lowpass", "highpass"} /\ Len(frequency) = 1
    \/ band \in {"bandpass", "bandstop"} /\ Len(frequency) = 2
                                          /\ frequency[1] < frequency[2]

\* `if filter_type in [u"FIR", u"butter", ...]`
IsFamily_Any(filter_type) == TRUE
IsFamily(filter_type) == filter_type \in Families

\* lines 118-119, the else branch: biosppy.ecg.hamilton_segmenter
Fallback_Gamboa(segmenter) == "gamboa_segmenter"
Fallback(segmenter) == "hamilton_segmenter"

\* the function the if/elif chain of lines 106-119 calls for a tag
SegmenterFor(segmenter) ==
    IF segmenter = "hamilton" THEN "hamilton_segmenter"
    ELSE IF segmenter = "gamboa" THEN "gamboa_segmenter"
    ELSE IF segmenter = "engzee" THEN "engzee_segmenter"
    ELSE IF segmenter = "christov" THEN "christov_segmenter"
    ELSE IF segmenter = "ssf" THEN "ssf_segmenter"
    ELSE IF segmenter = "pekkanen" THEN "segmenter_pekkanen"
    ELSE Fallback(segmenter)

\* the keyword arguments each call of lines 106-119 passes
Keywords(segmenter) ==
    IF segmenter = "gamboa" THEN {"signal", "sampling_rate", "tol"}
    ELSE IF segmenter = "engzee" THEN {"signal", "sampling_rate", "threshold"}
    ELSE IF segmenter = "ssf"
        THEN {"signal", "sampling_rate", "threshold", "before", "after"}
    ELSE IF segmenter = "pekkanen"
        THEN {"signal", "sampling_rate", "window_size", "lfreq", "hfreq"}
    ELSE {"signal", "sampling_rate"}

\* the parameter names of each segmenter; line 420 for segmenter_pekkanen
Parameters(function) ==
    IF function = "segmenter_pekkanen"
        THEN {"ecg", "sampling_rate", "window_size", "lfreq", "hfreq"}
    ELSE IF function = "gamboa_segmenter" THEN {"signal", "sampling_rate", "tol"}
    ELSE IF function = "engzee_segmenter"
        THEN {"signal", "sampling_rate", "threshold"}
    ELSE IF function = "ssf_segmenter"
        THEN {"signal", "sampling_rate", "threshold", "before", "after"}
    ELSE {"signal", "sampling_rate"}

\* a Python call with keyword arguments only: a keyword that names no
\* parameter raises TypeError
Binds(function, keywords) == keywords \subseteq Parameters(function)

InitPreprocess ==
    /\ p_pc = "filter"
    /\ \E n \in 0..MaxEcg : p_ecg \in [0..(n - 1) -> Samples]
    /\ p_filter_type \in FilterTypeInputs
    /\ p_filter_band \in BandInputs
    /\ p_filter_frequency \in FrequencyInputs
    /\ p_segmenter \in SegmenterInputs
    /\ p_filtered = <<>>
    /\ p_called = ""
    /\ p_rpeaks = "unset"
    /\ p_error = ""
    /\ IdleSystole /\ IdleWaves /\ IdlePekkanen /\ IdleContinuous /\ IdleTimes
    /\ console = <<>>
    /\ IdleEvents
    /\ IdleCycles
    /\ IdleReport

\* lines 94-101: filtered, _, _ = biosppy.tools.filter_signal(...).  The
\* library returns a filtered array of the same length when the band is one
\* of its four bands, and raises ValueError for any other band; for a
\* frequency argument that does not fit the band it either raises or still
\* returns an array, depending on the family.
FilterFamily ==
    /\ p_pc = "filter"
    /\ IsFamily(p_filter_type)
    /\ \/ /\ p_filtered' \in [DOMAIN p_ecg -> Samples]
          /\ p_filter_band \in Bands
          /\ p_pc' = "segment"
          /\ UNCHANGED p_error
       \/ /\ ~ValidCombination(p_filter_band, p_filter_frequency)
          /\ p_error' = "ValueError"
          /\ p_pc' = "filter_raised"
          /\ UNCHANGED p_filtered
    /\ UNCHANGED <<p_ecg, p_filter_type, p_filter_band, p_filter_frequency,
                   p_segmenter, p_called, p_rpeaks, notPreprocess>>

\* lines 102-103: else: filtered = ecg
FilterNone ==
    /\ p_pc = "filter"
    /\ ~IsFamily(p_filter_type)
    /\ p_filtered' = p_ecg
    /\ p_pc' = "segment"
    /\ UNCHANGED <<p_ecg, p_filter_type, p_filter_band, p_filter_frequency,
                   p_segmenter, p_called, p_rpeaks, p_error, notPreprocess>>

\* lines 106-119: the if/elif chain and the call it makes
Segment ==
    /\ p_pc = "segment"
    /\ LET function == SegmenterFor(p_segmenter)
       IN  IF Binds(function, Keywords(p_segmenter))
           THEN /\ p_called' = function
                /\ p_rpeaks' = "candidates"
                /\ p_pc' = "correct_rpeaks"
                /\ UNCHANGED p_error
           ELSE /\ p_error' = "TypeError"
                /\ p_pc' = "segment_raised"
                /\ UNCHANGED <<p_called, p_rpeaks>>
    /\ UNCHANGED <<p_ecg, p_filter_type, p_filter_band, p_filter_frequency,
                   p_segmenter, p_filtered, notPreprocess>>

NextPreprocess == FilterFamily \/ FilterNone \/ Segment

SpecPreprocess == InitPreprocess /\ [][NextPreprocess]_vars

\* ----------------------- ecg_preprocess, filter and segmenter: the claims
\* the segmenter stage is over: rpeaks is assigned, or the call has raised
Segmented == p_pc \in {"correct_rpeaks", "segment_raised"}

\* the filter stage is over
Filtered == p_pc # "filter"

\* C18: each documented tag reaches its segmenter and obtains candidates that
\* go on to the peak refiner; none of them ends in an error, "pekkanen"
\* included.
C18_DocumentedTagRuns ==
    (Segmented /\ p_segmenter \in Documented) =>
        /\ p_pc = "correct_rpeaks"
        /\ p_error = ""
        /\ p_called = SegmenterFor(p_segmenter)
        /\ p_rpeaks = "candidates"

\* C19 (as stated): with a tag that is none of the known names the call fails
\* with an unknown-strategy error and produces no peak list.
C19_UnknownTagFails ==
    (Segmented /\ p_segmenter \notin Documented) =>
        /\ p_pc = "segment_raised"
        /\ p_error = "UnknownStrategy"
        /\ p_rpeaks = "unset"

\* C19 (amended): with a tag that is none of the known names the call does
\* not fail: it runs the hamilton segmenter on the filtered signal and its
\* candidates are the peak list.
C19_UnknownTagRunsHamilton ==
    (Segmented /\ p_segmenter \notin Documented) =>
        /\ p_pc = "correct_rpeaks"
        /\ p_error = ""
        /\ p_called = "hamilton_segmenter"
        /\ p_rpeaks = "candidates"

\* C19 witness: the segmenter stage is over for an unknown tag.
C19_Witness ==
    /\ Segmented
    /\ p_segmenter \notin Documented
    /\ p_rpeaks = "candidates"

\* C20: with a filter_type that is none of the six families the filtered
\* signal is the input signal, whatever the band and the frequency, and the
\* filter stage raises nothing.
C20_PassThrough ==
    (Filtered /\ p_filter_type \notin Families) =>
        /\ p_filtered = p_ecg
        /\ p_pc # "filter_raised"

\* C20 witness: a non-empty signal went through the filter stage unchanged
\* with an unrecognized filter_type and a band that is no band.
C20_Witness ==
    /\ p_pc = "segment"
    /\ p_filter_type = "none"
    /\ p_filter_band = "other"
    /\ SigLen(p_ecg) >= 2
    /\ p_filtered = p_ecg


\* C21: an invalid band/frequency combination, with whatever filter_type,
\* makes the filter stage raise before any segmentation; it never yields a
\* filtered or pass-through signal.
C21_InvalidSpecFails ==
    (Filtered /\ ~ValidCombination(p_filter_band, p_filter_frequency)) =>
        /\ p_pc = "filter_raised"
        /\ p_error # ""
        /\ p_filtered = <<>>
        /\ p_rpeaks = "unset"


\* the first difference of the smoothed energy, d[i] = e[i+1] - e[i], read
\* off the energy itself: its sign, where both samples are numbers
Finite(i) == k_energy[i] # NaN /\ k_energy[i + 1] # NaN
Rising(i) == Finite(i) /\ k_energy[i + 1] > k_energy[i]
Falling(i) == Finite(i) /\ k_energy[i + 1] < k_energy[i]
Level(i) == Finite(i) /\ k_energy[i + 1] = k_energy[i]

\* the positions i at which d[i] and d[i+1] both exist
StepPairs == 0..(SigLen(k_energy) - 3)

\* C22: the returned candidates are exactly the indices i - 1 with d[i] > 0
\* and d[i+1] < 0, in ascending order; where the energy stays level (d[i] = 0
\* or d[i+1] = 0) there is no candidate.
C22_PositiveToNegative ==
    (k_pc = "done") =>
        /\ k_rpeaks = SortedSeq({i - 1 : i \in {j \in StepPairs :
                                                  Rising(j) /\ Falling(j + 1)}})
        /\ \A c \in DOMAIN k_rpeaks :
              ~Level(k_rpeaks[c] + 1) /\ ~Level(k_rpeaks[c] + 2)

\* C22 witness: a returned call with two candidates on an energy that also
\* has a level top (a rise, a plateau, then a fall), which gave none.
C22_Witness ==
    /\ k_pc = "done"
    /\ Len(k_rpeaks) = 2
    /\ \E j \in StepPairs : j >= 1 /\ Rising(j - 1) /\ Level(j) /\ Falling(j + 1)


\* a normalised sample is a number of [0, 1]
InUnit(v) == v[2] > 0 /\ 0 <= v[1] /\ v[1] <= v[2]

\* C23: after the zeroing, the division by the median of the window maxima and
\* the clipping, every sample of the energy signal lies in [0, 1], also when
\* the median of the window maxima is 0.
C23_EnergyInUnit ==
    (k_pc = "smooth") => \A j \in DOMAIN k_power : InUnit(k_power[j])

\* the recording (the differenced signal) is shorter than one window
PowerLen == IF k_pc \in {"windows", "zero", "normalise", "clip", "smooth"}
            THEN SigLen(k_power) ELSE SigLen(k_energy)
Short == PowerLen < k_window

\* the samples of window i, complete windows only
WindowSamples(i) == [k \in 1..k_window |-> k_power[i * k_window + k - 1]]

\* C30: on a recording shorter than one window there is no per-window
\* statistic, both medians are undefined (nan), and the call returns an empty
\* candidate sequence; in general the statistics are those of the
\* floor(len / window) complete windows, and the samples after the last
\* complete window enter none.
C30_CompleteWindowsOnly ==
    /\ (k_pc = "zero") =>
          /\ Len(k_thresholds) = PowerLen \div k_window
          /\ Len(k_max_powers) = PowerLen \div k_window
          /\ \A i \in 0..(PowerLen \div k_window - 1) :
                /\ k_thresholds[i + 1] = HalfStdV(WindowSamples(i))
                /\ k_max_powers[i + 1] = MaxOf(WindowSamples(i))
    /\ (Short /\ k_pc \in {"zero", "normalise", "clip", "smooth"}) =>
          /\ k_thresholds = <<>> /\ k_max_powers = <<>>
          /\ k_threshold = <<>> /\ k_max_power = <<>>
    /\ (Short /\ k_pc \in {"return", "done"}) => k_rpeaks = <<>>
    /\ k_pc \in {"windows", "zero", "normalise", "clip", "smooth", "diff",
                 "compare", "flatnonzero", "shift", "return", "done"}

\* C30 witness: a call on a recording shorter than one window has returned
\* no peak, every sample of its smoothed energy being not-a-number.
C30_Witness ==
    /\ k_pc = "done"
    /\ Short
    /\ k_rpeaks = <<>>
    /\ \A j \in DOMAIN k_energy : k_energy[j] = NaN


\* ------------------------------------- ecg_preprocess, an unrecognized tag
\* C24: with a tag that is none of the known names the call runs what
\* segmenter = "hamilton" runs, with the same arguments on the same filtered
\* signal, and a warning has been printed for the caller.
C24_FallbackWithWarning ==
    (Segmented /\ p_segmenter \notin Documented) =>
        /\ p_pc = "correct_rpeaks"
        /\ p_called = SegmenterFor("hamilton")
        /\ Keywords(p_segmenter) = Keywords("hamilton")
        /\ console # <<>>


\* ------------------------------------------------------------- events.py
\* find_events calls localize_events (line 179), which calls binarize_signal
\* (line 111).  Thresholds are held in halves: the local treshold h stands
\* for the number h/2.
Levels == {0, 2, 3}
ChannelInputs == UNION {[1..n -> Levels] : n \in 0..MaxChannel}
TresholdInputs == {<<>>, <<5>>}
CutInputs == {"higher", "lower"}
\* time_index: None, or one time per sample, two units apart
TimeIndexInputs(n) == {<<>>, <<[i \in 1..n |-> 2 * (i - 1)]>>}
NumberInputs == {<<>>, <<1>>, <<2>>}
AfterInputs == {<<>>, <<0>>}
BeforeInputs == {<<>>, <<4>>}
DurationInputs == {1, 2}

\* line 53: (np.max(np.array(signal)) - np.min(np.array(signal)))/2, in halves
AutoTreshold(signal) == MaxOf(signal) - Min({signal[k] : k \in DOMAIN signal})

\* lines 54-67: the loop of binarize_signal
BinarizeSignal(signal, treshold, cut) ==
    [i \in DOMAIN signal |->
        IF cut = "higher"
        THEN IF 2 * signal[i] > treshold THEN 1 ELSE 0
        ELSE IF 2 * signal[i] < treshold THEN 1 ELSE 0]

\* itertools.groupby: the length of the group that starts at position p
GroupLen_One(channel, p) == 1
RECURSIVE GroupLen(_, _)
GroupLen(channel, p) ==
    IF p < Len(channel) /\ channel[p + 1] = channel[p]
    THEN 1 + GroupLen(channel, p + 1)
    ELSE 1

\* lines 117-125: the loop over the groups, from the group that starts at the
\* Python index `index`
RECURSIVE LocalizeFrom(_, _, _, _)
LocalizeFrom(channel, time_index, index, events) ==
    IF index >= Len(channel) THEN events
    ELSE LET key == channel[index + 1]
             duration == GroupLen(channel, index + 1)
             found ==
                 [events EXCEPT
                     !.onsets = Append(@, index),
                     !.durations = Append(@, duration),
                     !.onsets_time =
                         IF time_index # <<>>
                         THEN Append(@, time_index[1][index + 1])
                         ELSE @]
         IN  LocalizeFrom(channel, time_index, index + duration,
                          IF key = 1 THEN found ELSE events)

\* np.array(q)[np.array(mask)] for a boolean mask
RECURSIVE Masked(_, _)
Masked(q, mask) ==
    IF q = <<>> THEN <<>>
    ELSE (IF Head(mask) THEN <<Head(q)>> ELSE <<>>)
             \o Masked(Tail(q), Tail(mask))

\* q[:number] for a number that is not negative
Take(q, number) == SubSeq(q, 1, Min({number, Len(q)}))

\* the warning line 183 prints
NoEventsFound == "No events found. Check your events_channel or adjust trehsold."

InitEvents ==
    /\ e_pc = "treshold"
    /\ e_signal \in ChannelInputs
    /\ e_treshold_arg \in TresholdInputs
    /\ e_cut \in CutInputs
    /\ e_time_index \in TimeIndexInputs(Len(e_signal))
    /\ e_number \in NumberInputs
    /\ e_after \in AfterInputs
    /\ e_before \in BeforeInputs
    /\ e_min_duration \in DurationInputs
    /\ e_treshold = 0
    /\ e_binary = <<>>
    /\ e_events = NoDict
    /\ e_after_part = NoPart
    /\ e_before_part = NoPart
    /\ e_error = ""
    /\ e_returned = ""
    /\ IdleSystole /\ IdleWaves /\ IdlePekkanen /\ IdleContinuous /\ IdleTimes
    /\ IdlePreprocess
    /\ console = <<>>
    /\ IdleCycles
    /\ IdleReport

\* lines 52-53; np.max of an empty array raises ValueError
Treshold ==
    /\ e_pc = "treshold"
    /\ IF e_treshold_arg # <<>>
       THEN /\ e_treshold' = e_treshold_arg[1]
            /\ e_pc' = "binarize"
            /\ UNCHANGED e_error
       ELSE IF e_signal = <<>>
       THEN /\ e_error' = "ValueError"
            /\ e_pc' = "raised"
            /\ UNCHANGED e_treshold
       ELSE /\ e_treshold' = AutoTreshold(e_signal)
            /\ e_pc' = "binarize"
            /\ UNCHANGED e_error
    /\ UNCHANGED <<e_signal, e_treshold_arg, e_cut, e_time_index, e_number,
                   e_after, e_before, e_min_duration, e_binary, e_events,
                   e_after_part, e_before_part, e_returned, console,
                   notEvents>>

\* lines 54-67, and line 111 that takes the result
Binarize ==
    /\ e_pc = "binarize"
    /\ e_binary' = BinarizeSignal(e_signal, e_treshold, e_cut)
    /\ e_pc' = "localize"
    /\ UNCHANGED <<e_signal, e_treshold_arg, e_cut, e_time_index, e_number,
                   e_after, e_before, e_min_duration, e_treshold, e_events,
                   e_after_part, e_before_part, e_error, e_returned, console,
                   notEvents>>

\* lines 113-126, and line 179 that takes the result
Localize ==
    /\ e_pc = "localize"
    /\ e_events' = LocalizeFrom(e_binary, e_time_index, 0,
                                [NoDict EXCEPT !.timed = e_time_index # <<>>])
    /\ e_pc' = "found"
    /\ UNCHANGED <<e_signal, e_treshold_arg, e_cut, e_time_index, e_number,
                   e_after, e_before, e_min_duration, e_treshold, e_binary,
                   e_after_part, e_before_part, e_error, e_returned, console,
                   notEvents>>

\* lines 182-184: print the warning, return ()
NoEvents ==
    /\ e_pc = "found"
    /\ e_events.onsets = <<>>
    /\ console' = Append(console, NoEventsFound)
    /\ e_returned' = "()"
    /\ e_pc' = "done"
    /\ UNCHANGED <<e_signal, e_treshold_arg, e_cut, e_time_index, e_number,
                   e_after, e_before, e_min_duration, e_treshold, e_binary,
                   e_events, e_after_part, e_before_part, e_error, notEvents>>

\* lines 187-196: drop the events shorter than min_duration
RemoveShort ==
    /\ e_pc = "found"
    /\ e_events.onsets # <<>>
    /\ LET toremove == [k \in DOMAIN e_events.durations |->
                           ~(e_events.durations[k] < e_min_duration)]
       IN  e_events' =
               [e_events EXCEPT
                   !.onsets = Masked(@, toremove),
                   !.durations = Masked(@, toremove),
                   !.onsets_time =
                       IF e_time_index # <<>> THEN Masked(@, toremove) ELSE @]
    /\ e_pc' = "number"
    /\ UNCHANGED <<e_signal, e_treshold_arg, e_cut, e_time_index, e_number,
                   e_after, e_before, e_min_duration, e_treshold, e_binary,
                   e_after_part, e_before_part, e_error, e_returned, console,
                   notEvents>>

\* line 199 when number is not an int, line 226
ReturnAll ==
    /\ e_pc = "number"
    /\ e_number = <<>>
    /\ e_returned' = "events"
    /\ e_pc' = "done"
    /\ UNCHANGED <<e_signal, e_treshold_arg, e_cut, e_time_index, e_number,
                   e_after, e_before, e_min_duration, e_treshold, e_binary,
                   e_events, e_after_part, e_before_part, e_error, console,
                   notEvents>>

\* lines 207-210 and 215-218: events["onsets_time"] raises KeyError when the
\* key was never set; when it holds an array, the comparison with [] is not
\* true and the else branch leaves the times as they are
HasTimes(events) == events.timed

\* lines 199-213
After ==
    /\ e_pc = "number"
    /\ e_number # <<>>
    /\ IF e_after = <<>>
       THEN /\ e_pc' = "before"
            /\ UNCHANGED <<e_after_part, e_error>>
       ELSE IF ~HasTimes(e_events)
       THEN /\ e_error' = "KeyError"
            /\ e_pc' = "raised"
            /\ UNCHANGED e_after_part
       ELSE LET mask == [k \in DOMAIN e_events.onsets_time |->
                            e_events.onsets_time[k] > e_after[1]]
            IN  /\ e_after_part' =
                       [onsets |-> Take(Masked(e_events.onsets, mask), e_number[1]),
                        times |-> Take(Masked(e_events.onsets_time, mask), e_number[1]),
                        length |-> Take(Masked(e_events.durations, mask), e_number[1])]
                /\ e_pc' = "before"
                /\ UNCHANGED e_error
    /\ UNCHANGED <<e_signal, e_treshold_arg, e_cut, e_time_index, e_number,
                   e_after, e_before, e_min_duration, e_treshold, e_binary,
                   e_events, e_before_part, e_returned, console, notEvents>>

\* lines 214-221
Before ==
    /\ e_pc = "before"
    /\ IF e_before = <<>>
       THEN /\ e_pc' = "concatenate"
            /\ UNCHANGED <<e_before_part, e_error>>
       ELSE IF ~HasTimes(e_events)
       THEN /\ e_error' = "KeyError"
            /\ e_pc' = "raised"
            /\ UNCHANGED e_before_part
       ELSE LET mask == [k \in DOMAIN e_events.onsets_time |->
                            e_events.onsets_time[k] < e_before[1]]
            IN  /\ e_before_part' =
                       [onsets |-> Take(Masked(e_events.onsets, mask), e_number[1]),
                        times |-> Take(Masked(e_events.onsets_time, mask), e_number[1]),
                        length |-> Take(Masked(e_events.durations, mask), e_number[1])]
                /\ e_pc' = "concatenate"
                /\ UNCHANGED e_error
    /\ UNCHANGED <<e_signal, e_treshold_arg, e_cut, e_time_index, e_number,
                   e_after, e_before, e_min_duration, e_treshold, e_binary,
                   e_events, e_after_part, e_returned, console, notEvents>>

\* lines 222-226
Concatenate ==
    /\ e_pc = "concatenate"
    /\ e_events' = [onsets |-> e_before_part.onsets \o e_after_part.onsets,
                    onsets_time |-> e_before_part.times \o e_after_part.times,
                    durations |-> e_before_part.length \o e_after_part.length,
                    timed |-> TRUE]
    /\ e_returned' = "events"
    /\ e_pc' = "done"
    /\ UNCHANGED <<e_signal, e_treshold_arg, e_cut, e_time_index, e_number,
                   e_after, e_before, e_min_duration, e_treshold, e_binary,
                   e_after_part, e_before_part, e_error, console, notEvents>>

NextEvents ==
    \/ Treshold \/ Binarize \/ Localize \/ NoEvents \/ RemoveShort
    \/ ReturnAll \/ After \/ Before \/ Concatenate

SpecEvents == InitEvents /\ [][NextEvents]_vars


\* -------------------------------------------------- events.py: the claims
\* binarize_signal has returned
Binarized == e_pc \notin {"idle", "treshold", "binarize"} /\ e_error # "ValueError"

\* smallest and largest sample of the channel
Lowest == Min({e_signal[k] : k \in DOMAIN e_signal})
Highest == MaxOf(e_signal)

\* C25: with treshold = "auto" the threshold lies between the smallest and the
\* largest sample, and with cut = "higher" every largest sample of a channel
\* that is not constant becomes 1 and every smallest sample 0.
C25_AutoBetweenMinAndMax ==
    (Binarized /\ e_treshold_arg = <<>>) =>
        /\ 2 * Lowest <= e_treshold
        /\ e_treshold <= 2 * Highest
        /\ (e_cut = "higher" /\ Lowest # Highest) =>
               \A i \in DOMAIN e_signal :
                   /\ e_signal[i] = Highest => e_binary[i] = 1
                   /\ e_signal[i] = Lowest => e_binary[i] = 0

\* localize_events has returned and find_events has not yet touched the dict
Localized == e_pc = "found"

\* the binary channel at the Python index i
At(i) == e_binary[i + 1]

\* the Python indices of the run of samples an event covers
Run(k) == e_events.onsets[k]..(e_events.onsets[k] + e_events.durations[k] - 1)

\* C29: the onsets ascend strictly; each is the first index of a maximal run of
\* consecutive 1s of the binary channel and its duration, at least 1, is the
\* length of that run, so that an event ends before the next one starts with
\* at least one sample between them; there are as many durations as onsets,
\* and the durations add up to the number of samples that are 1.
C29_MaximalRuns ==
    Localized =>
        LET onsets == e_events.onsets
            durations == e_events.durations
            n == Len(e_binary)
        IN  /\ Len(onsets) = Len(durations)
            /\ \A k \in DOMAIN onsets :
                  /\ durations[k] >= 1
                  /\ onsets[k] >= 0 /\ onsets[k] + durations[k] <= n
                  /\ \A i \in Run(k) : At(i) = 1
                  /\ onsets[k] = 0 \/ At(onsets[k] - 1) = 0
                  /\ onsets[k] + durations[k] = n
                        \/ At(onsets[k] + durations[k]) = 0
                  /\ k < Len(onsets) =>
                        /\ onsets[k] < onsets[k + 1]
                        /\ onsets[k] + durations[k] < onsets[k + 1]
            /\ SumSeq(durations, Len(durations))
                  = Cardinality({i \in 0..(n - 1) : At(i) = 1})

\* two events were found, the second of them two samples long
C29_Witness ==
    /\ Localized
    /\ Len(e_events.onsets) = 2
    /\ e_events.durations[2] = 2

\* find_events was called with an integer number on a channel that holds an
\* event, and the call is over
SelectedCall ==
    /\ e_pc \in {"done", "raised"}
    /\ e_number # <<>>
    /\ \E i \in DOMAIN e_binary : e_binary[i] = 1

\* C26: with an integer number n on a channel that holds an event, find_events
\* returns without an error at most n events, each one at least min_duration
\* long, with an onset time after `after` and before `before` (when given),
\* and none of them twice.
C26_AtMostNumber ==
    SelectedCall =>
        /\ e_pc = "done"
        /\ e_error = ""
        /\ e_returned = "events"
        /\ Len(e_events.onsets) <= e_number[1]
        /\ Len(e_events.durations) = Len(e_events.onsets)
        /\ Len(e_events.onsets_time) = Len(e_events.onsets)
        /\ \A k \in DOMAIN e_events.onsets :
              /\ e_events.durations[k] >= e_min_duration
              /\ e_after # <<>> => e_events.onsets_time[k] > e_after[1]
              /\ e_before # <<>> => e_events.onsets_time[k] < e_before[1]
              /\ \A j \in DOMAIN e_events.onsets :
                    j # k => e_events.onsets[j] # e_events.onsets[k]


\* -------------------------------------------------------- rsp_find_cycles
\* sample values of the respiratory signal
RspLevels == {0, 1, 2}
RspInputs == UNION {[0..(n - 1) -> RspLevels] : n \in 2..MaxRsp}

\* np.gradient(signal) for at least two samples, doubled: central differences
\* inside, one-sided differences at the two ends
NpGradient(signal) ==
    LET n == Cardinality(DOMAIN signal)
    IN  [i \in 0..(n - 1) |->
            IF i = 0 THEN 2 * (signal[1] - signal[0])
            ELSE IF i = n - 1 THEN 2 * (signal[n - 1] - signal[n - 2])
            ELSE signal[i + 1] - signal[i - 1]]

RECURSIVE SumTo(_, _)
SumTo(a, i) == IF i < 0 THEN 0 ELSE a[i] + SumTo(a, i - 1)

Sign(x) == IF x > 0 THEN 1 ELSE IF x < 0 THEN -1 ELSE 0

\* biosppy.tools.zero_cross(signal=gradient, detrend=True): the indices i at
\* which np.sign(gradient - np.mean(gradient)) differs between i and i + 1,
\* ascending
ZeroCrossing(gradient) ==
    LET n == Cardinality(DOMAIN gradient)
        sign == [i \in 0..(n - 1) |->
                    Sign(n * gradient[i] - SumTo(gradient, n - 1))]
    IN  SortedSeq({i \in 0..(n - 2) : sign[i] # sign[i + 1]})

\* lines 205-208 for the crossing i
PhaseOf(gradient, i) ==
    LET n == Cardinality(DOMAIN gradient)
    IN  IF gradient[i + 1] > PyIndex(gradient, n, i - 1)
        THEN "Inspiration" ELSE "Expiration"

\* lines 223-226 and 238-241
Opposite(phase) == IF phase = "Inspiration" THEN "Expiration" ELSE "Inspiration"

\* np.array(inspiration) is an array of strings as wide as its longest
\* element, and a longer string assigned to it is cut to that width
Stored(phase, inspiration) ==
    IF phase = "Inspiration"
          /\ \A k \in DOMAIN inspiration : inspiration[k] # "Inspiration"
    THEN "Inspiratio"
    ELSE phase

InitCycles ==
    /\ c_pc = "gradient"
    /\ c_signal \in RspInputs
    /\ c_gradient = <<>>
    /\ c_zeros = <<>>
    /\ c_phases_indices = <<>>
    /\ c_inspiration_onsets = <<>>
    /\ c_expiration_onsets = <<>>
    /\ c_phase = ""
    /\ c_phase_counter = 0
    /\ c_i = 0
    /\ c_inspiration = <<>>
    /\ c_binary = <<>>
    /\ c_error = ""
    /\ IdleSystole /\ IdleWaves /\ IdlePekkanen /\ IdleContinuous /\ IdleTimes
    /\ IdlePreprocess /\ IdleEvents
    /\ console = <<>>
    /\ IdleReport

\* line 198
Gradient ==
    /\ c_pc = "gradient"
    /\ c_gradient' = NpGradient(c_signal)
    /\ c_pc' = "zero_cross"
    /\ UNCHANGED <<c_signal, c_zeros, c_phases_indices, c_inspiration_onsets,
                   c_expiration_onsets, c_phase, c_phase_counter, c_i,
                   c_inspiration, c_binary, c_error, notCycles>>

\* line 200
ZeroCross ==
    /\ c_pc = "zero_cross"
    /\ c_zeros' = ZeroCrossing(c_gradient)
    /\ c_pc' = "phases"
    /\ UNCHANGED <<c_signal, c_gradient, c_phases_indices,
                   c_inspiration_onsets, c_expiration_onsets, c_phase,
                   c_phase_counter, c_i, c_inspiration, c_binary, c_error,
                   notCycles>>

\* lines 203-208
Phases ==
    /\ c_pc = "phases"
    /\ c_phases_indices' =
           [k \in DOMAIN c_zeros |-> PhaseOf(c_gradient, c_zeros[k])]
    /\ c_pc' = "onsets"
    /\ UNCHANGED <<c_signal, c_gradient, c_zeros, c_inspiration_onsets,
                   c_expiration_onsets, c_phase, c_phase_counter, c_i,
                   c_inspiration, c_binary, c_error, notCycles>>

\* lines 211-217
Onsets ==
    /\ c_pc = "onsets"
    /\ c_inspiration_onsets' =
           Masked(c_zeros, [k \in DOMAIN c_zeros |->
                               c_phases_indices[k] = "Inspiration"])
    /\ c_expiration_onsets' =
           Masked(c_zeros, [k \in DOMAIN c_zeros |->
                               c_phases_indices[k] = "Expiration"])
    /\ c_pc' = "initial"
    /\ UNCHANGED <<c_signal, c_gradient, c_zeros, c_phases_indices, c_phase,
                   c_phase_counter, c_i, c_inspiration, c_binary, c_error,
                   notCycles>>

\* lines 223-229; phases_indices[0] raises IndexError on an empty list
InitialPhase ==
    /\ c_pc = "initial"
    /\ IF c_phases_indices = <<>>
       THEN /\ c_error' = "IndexError"
            /\ c_pc' = "raised"
            /\ UNCHANGED c_phase
       ELSE /\ c_phase' = Opposite(c_phases_indices[1])
            /\ c_pc' = "walk"
            /\ UNCHANGED c_error
    /\ UNCHANGED <<c_signal, c_gradient, c_zeros, c_phases_indices,
                   c_inspiration_onsets, c_expiration_onsets,
                   c_phase_counter, c_i, c_inspiration, c_binary, notCycles>>

\* lines 230-235, one iteration
Walk ==
    /\ c_pc = "walk"
    /\ c_i < Cardinality(DOMAIN c_signal)
    /\ LET crossing == c_i = c_zeros[c_phase_counter + 1]
           phase == IF crossing THEN c_phases_indices[c_phase_counter + 1]
                    ELSE c_phase
       IN  /\ c_phase' = phase
           /\ c_phase_counter' =
                  IF crossing /\ c_phase_counter < Len(c_zeros) - 1
                  THEN c_phase_counter + 1 ELSE c_phase_counter
           /\ c_inspiration' = Append(c_inspiration, phase)
    /\ c_i' = c_i + 1
    /\ UNCHANGED <<c_pc, c_signal, c_gradient, c_zeros, c_phases_indices,
                   c_inspiration_onsets, c_expiration_onsets, c_binary,
                   c_error, notCycles>>

\* lines 238-243
LastPhase ==
    /\ c_pc = "walk"
    /\ c_i = Cardinality(DOMAIN c_signal)
    /\ LET last_phase == Opposite(c_phases_indices[Len(c_phases_indices)])
           from == MaxOf(c_zeros)
       IN  c_inspiration' =
               [k \in DOMAIN c_inspiration |->
                   IF k - 1 >= from THEN Stored(last_phase, c_inspiration)
                   ELSE c_inspiration[k]]
    /\ c_pc' = "binary"
    /\ UNCHANGED <<c_signal, c_gradient, c_zeros, c_phases_indices,
                   c_inspiration_onsets, c_expiration_onsets, c_phase,
                   c_phase_counter, c_i, c_binary, c_error, notCycles>>

\* lines 246-248; pd.to_numeric raises ValueError for a string that is no
\* number
ToBinary ==
    /\ c_pc = "binary"
    /\ IF \E k \in DOMAIN c_inspiration :
             c_inspiration[k] \notin {"Inspiration", "Expiration"}
       THEN /\ c_error' = "ValueError"
            /\ c_pc' = "raised"
            /\ UNCHANGED c_binary
       ELSE /\ c_binary' = [k \in DOMAIN c_inspiration |->
                               IF c_inspiration[k] = "Inspiration" THEN 1 ELSE 0]
            /\ c_pc' = "return"
            /\ UNCHANGED c_error
    /\ UNCHANGED <<c_signal, c_gradient, c_zeros, c_phases_indices,
                   c_inspiration_onsets, c_expiration_onsets, c_phase,
                   c_phase_counter, c_i, c_inspiration, notCycles>>

\* lines 250-257
ReturnCycles ==
    /\ c_pc = "return"
    /\ c_pc' = "done"
    /\ UNCHANGED <<c_signal, c_gradient, c_zeros, c_phases_indices,
                   c_inspiration_onsets, c_expiration_onsets, c_phase,
                   c_phase_counter, c_i, c_inspiration, c_binary, c_error,
                   notCycles>>

NextCycles ==
    \/ Gradient \/ ZeroCross \/ Phases \/ Onsets \/ InitialPhase \/ Walk
    \/ LastPhase \/ ToBinary \/ ReturnCycles

SpecCycles == InitCycles /\ [][NextCycles]_vars

\* ------------------------------------------- rsp_find_cycles: the claims
\* the dict was returned
CyclesReturned == c_pc = "done"

\* RSP_Inspiration at the Python index i
Inspiration(i) == c_binary[i + 1]

\* the crossings at or before the index i, as positions of zeros
CrossedBy(i) == {k \in DOMAIN c_zeros : c_zeros[k] <= i}

\* 1 for a crossing of class Inspiration, 0 for one of class Expiration
ClassBit(k) == IF PhaseOf(c_gradient, c_zeros[k]) = "Inspiration" THEN 1 ELSE 0

\* C28: RSP_Inspiration is as long as the signal and binary, it changes value
\* at zero-crossing indices only, from the first crossing on it is 1 exactly
\* where the latest crossing at or before the index is of class Inspiration,
\* the last crossing included, and before the first crossing it holds the
\* opposite of the class of the first crossing.
C28_FollowsLatestCrossing ==
    CyclesReturned =>
        LET n == Cardinality(DOMAIN c_signal)
        IN  /\ Len(c_binary) = n
            /\ \A i \in 0..(n - 1) :
                  /\ Inspiration(i) \in {0, 1}
                  /\ CrossedBy(i) = {} => Inspiration(i) = 1 - ClassBit(1)
                  /\ CrossedBy(i) # {} =>
                        Inspiration(i) = ClassBit(Max(CrossedBy(i)))
                  /\ (i > 0 /\ Inspiration(i) # Inspiration(i - 1)) =>
                        \E k \in DOMAIN c_zeros : c_zeros[k] = i


\* ------------------------------- ecg_preprocess, peaks, cycles and report
\* the sampling rates; at 20 Hz the tolerance of correct_rpeaks is one sample
ReportRates == {20}
\* the candidates of the segmenter: ascending indices, -1 included
CandidateInputs(n) ==
    {SortedSeq(S) : S \in {X \in SUBSET (-1..(n - 1)) :
                              Cardinality(X) <= MaxCandidates}}

\* int(tol * sampling_rate), int(before * sampling_rate) and
\* int(after * sampling_rate) with tol=0.05, before=0.2, after=0.4
TolSamples(rate) == (5 * rate) \div 100
BeforeSamples(rate) == (2 * rate) \div 10
AfterSamples(rate) == (4 * rate) \div 10

\* biosppy.ecg.correct_rpeaks: a peak r with r - tol < 0 or r + tol > length
\* is dropped, every other one moves to the largest sample of
\* signal[r - tol:r + tol]; the result is sorted and without repetitions
CorrectedOutcomes(length, rpeaks, tol) ==
    LET survivors == {k \in DOMAIN rpeaks :
                         rpeaks[k] - tol >= 0 /\ rpeaks[k] + tol <= length}
        moves == {f \in [survivors -> 0..(length - 1)] :
                     \A k \in survivors :
                         f[k] \in (rpeaks[k] - tol)..(rpeaks[k] + tol - 1)}
    IN  {SortedSeq({f[k] : k \in survivors}) : f \in moves}

\* the loop of biosppy.ecg.extract_heartbeats over the sorted peaks, from the
\* k-th: a peak whose window starts before the signal is skipped, the loop
\* ends at the first peak whose window ends after the signal
RECURSIVE KeptFrom_All(_, _, _, _, _)
KeptFrom_All(R, k, length, before, after) ==
    IF k > Len(R) THEN <<>>
    ELSE <<R[k]>> \o KeptFrom_All(R, k + 1, length, before, after)
RECURSIVE KeptFrom(_, _, _, _, _)
KeptFrom(R, k, length, before, after) ==
    IF k > Len(R) THEN <<>>
    ELSE IF R[k] - before < 0 THEN KeptFrom(R, k + 1, length, before, after)
    ELSE IF R[k] + after > length THEN <<>>
    ELSE <<R[k]>> \o KeptFrom(R, k + 1, length, before, after)

\* templates.append(signal[a:b]) for each peak that is kept, as <<a, b>>
Templates(newR, before, after) ==
    [k \in DOMAIN newR |-> <<newR[k] - before, newR[k] + after>>]

InitReport ==
    /\ r_pc = "correct_rpeaks"
    /\ r_length \in MinFiltered..MaxFiltered
    /\ r_sampling_rate \in ReportRates
    /\ r_rpeaks \in CandidateInputs(r_length)
    /\ r_corrected = <<>>
    /\ r_cardiac_cycles = <<>>
    /\ r_beats = <<>>
    /\ r_rpeaks_signal = <<>>
    /\ r_R_Peaks = <<>>
    /\ r_heartbeats = 0
    /\ r_wave_rpeaks = <<>>
    /\ r_systole_rpeaks = <<>>
    /\ r_error = ""
    /\ IdleSystole /\ IdleWaves /\ IdlePekkanen /\ IdleContinuous /\ IdleTimes
    /\ IdlePreprocess /\ IdleEvents /\ IdleCycles
    /\ console = <<>>

\* lines 123-126
CorrectRpeaks ==
    /\ r_pc = "correct_rpeaks"
    /\ r_rpeaks' \in CorrectedOutcomes(r_length, r_rpeaks,
                                       TolSamples(r_sampling_rate))
    /\ r_corrected' = r_rpeaks'
    /\ r_pc' = "extract_heartbeats"
    /\ UNCHANGED <<r_length, r_sampling_rate, r_cardiac_cycles, r_beats,
                   r_rpeaks_signal, r_R_Peaks, r_heartbeats, r_wave_rpeaks,
                   r_systole_rpeaks, r_error, console, notReport>>

\* lines 129-133: cardiac_cycles, rpeaks = biosppy.ecg.extract_heartbeats(...)
ExtractHeartbeats ==
    /\ r_pc = "extract_heartbeats"
    /\ LET before == BeforeSamples(r_sampling_rate)
           after == AfterSamples(r_sampling_rate)
           newR == KeptFrom(r_rpeaks, 1, r_length, before, after)
       IN  /\ r_rpeaks' = newR
           /\ r_cardiac_cycles' = Templates(newR, before, after)
    /\ r_pc' = "get_heart_rate"
    /\ UNCHANGED <<r_length, r_sampling_rate, r_corrected, r_beats,
                   r_rpeaks_signal, r_R_Peaks, r_heartbeats, r_wave_rpeaks,
                   r_systole_rpeaks, r_error, console, notReport>>

\* lines 136-139: biosppy.tools.get_heart_rate(beats=rpeaks, ...) raises
\* ValueError for fewer than two beats
GetHeartRate ==
    /\ r_pc = "get_heart_rate"
    /\ r_beats' = r_rpeaks
    /\ IF Len(r_rpeaks) < 2
       THEN r_error' = "ValueError" /\ r_pc' = "raised"
       ELSE r_pc' = "rpeaks_signal" /\ UNCHANGED r_error
    /\ UNCHANGED <<r_length, r_sampling_rate, r_corrected, r_rpeaks,
                   r_cardiac_cycles, r_rpeaks_signal, r_R_Peaks, r_heartbeats,
                   r_wave_rpeaks, r_systole_rpeaks, console, notReport>>

\* lines 157-159: an array of nan, rpeaks_signal[rpeaks] = 1
RpeaksSignal ==
    /\ r_pc = "rpeaks_signal"
    /\ r_rpeaks_signal' =
           PyAssign([i \in 0..(r_length - 1) |-> NaN],
                    {r_rpeaks[k] : k \in DOMAIN r_rpeaks}, 1)
    /\ r_pc' = "heart_rate"
    /\ UNCHANGED <<r_length, r_sampling_rate, r_corrected, r_rpeaks,
                   r_cardiac_cycles, r_beats, r_R_Peaks, r_heartbeats,
                   r_wave_rpeaks, r_systole_rpeaks, r_error, console,
                   notReport>>

\* lines 163-168: discrete_to_continuous returns, or raises TypeError, which
\* is caught and reported, or raises another exception, which is not caught
HeartRateColumn ==
    /\ r_pc = "heart_rate"
    /\ \/ r_pc' = "store" /\ UNCHANGED <<r_error, console>>
       \/ /\ r_pc' = "store"
          /\ console' = Append(console, TooShort)
          /\ UNCHANGED r_error
       \/ /\ r_pc' = "raised"
          /\ r_error' \in {"IndexError", "ValueError"}
          /\ UNCHANGED console
    /\ UNCHANGED <<r_length, r_sampling_rate, r_corrected, r_rpeaks,
                   r_cardiac_cycles, r_beats, r_rpeaks_signal, r_R_Peaks,
                   r_heartbeats, r_wave_rpeaks, r_systole_rpeaks, notReport>>

\* lines 172-181: R_Peaks, and Cardiac_Cycles with one column for each
\* template
Store ==
    /\ r_pc = "store"
    /\ r_R_Peaks' = r_rpeaks
    /\ r_heartbeats' = Len(r_cardiac_cycles)
    /\ r_pc' = "waves"
    /\ UNCHANGED <<r_length, r_sampling_rate, r_corrected, r_rpeaks,
                   r_cardiac_cycles, r_beats, r_rpeaks_signal, r_wave_rpeaks,
                   r_systole_rpeaks, r_error, console, notReport>>

\* lines 184-185: ecg_wave_detector(ecg_df["ECG_Filtered"], rpeaks) returns
\* or raises
WaveDetector ==
    /\ r_pc = "waves"
    /\ r_wave_rpeaks' = r_rpeaks
    /\ \/ r_pc' = "systole" /\ UNCHANGED r_error
       \/ r_pc' = "raised" /\ r_error' = "IndexError"
    /\ UNCHANGED <<r_length, r_sampling_rate, r_corrected, r_rpeaks,
                   r_cardiac_cycles, r_beats, r_rpeaks_signal, r_R_Peaks,
                   r_heartbeats, r_systole_rpeaks, console, notReport>>

\* lines 188-191: ecg_systole(ecg_df["ECG_Filtered"], rpeaks, ...) returns or
\* raises; return(processed_ecg)
Systole ==
    /\ r_pc = "systole"
    /\ r_systole_rpeaks' = r_rpeaks
    /\ \/ r_pc' = "done" /\ UNCHANGED r_error
       \/ r_pc' = "raised" /\ r_error' = "IndexError"
    /\ UNCHANGED <<r_length, r_sampling_rate, r_corrected, r_rpeaks,
                   r_cardiac_cycles, r_beats, r_rpeaks_signal, r_R_Peaks,
                   r_heartbeats, r_wave_rpeaks, console, notReport>>

NextReport ==
    \/ CorrectRpeaks \/ ExtractHeartbeats \/ GetHeartRate \/ RpeaksSignal
    \/ HeartRateColumn \/ Store \/ WaveDetector \/ Systole

SpecReport == InitReport /\ [][NextReport]_vars

\* --------------------------------------- ecg_preprocess, report: the claim
\* ecg_preprocess has returned processed_ecg
Reported == r_pc = "done"

\* the window of the peak r lies inside the signal
WindowInside(r) ==
    /\ r - BeforeSamples(r_sampling_rate) >= 0
    /\ r + AfterSamples(r_sampling_rate) <= r_length

\* the refined peaks whose window lies inside the signal, in their order
Inside == Masked(r_corrected,
                 [k \in DOMAIN r_corrected |-> WindowInside(r_corrected[k])])

\* C27: the list reported as R_Peaks, and handed to the rate estimator, the
\* wave localizer and the phase classifier, is the list the cycle extractor
\* returns: the refined peaks without those whose window crosses an edge of
\* the signal.  There are as many Cardiac_Cycles as R_Peaks, and the column
\* ECG_R_Peaks is 1 at the R_Peaks and not-a-number everywhere else.
C27_ReportedPeaksAreKept ==
    Reported =>
        /\ r_R_Peaks = Inside
        /\ r_beats = r_R_Peaks
        /\ r_wave_rpeaks = r_R_Peaks
        /\ r_systole_rpeaks = r_R_Peaks
        /\ r_heartbeats = Len(r_R_Peaks)
        /\ DOMAIN r_rpeaks_signal = 0..(r_length - 1)
        /\ \A i \in 0..(r_length - 1) :
              IF \E k \in DOMAIN r_R_Peaks : r_R_Peaks[k] = i
              THEN r_rpeaks_signal[i] = 1
              ELSE r_rpeaks_signal[i] = NaN

\* a report with two peaks, after a refined peak near an edge was removed
C27_Witness ==
    /\ Reported
    /\ Len(r_R_Peaks) = 2
    /\ Len(r_corrected) > 2

====
